---- MODULE Spec2Model ----
(***************************************************************************)
(* Model of the mgen C runtime: error context, generic dynamic array,      *)
(* chained hash tables, slice normalizer, scope allocator, reference       *)
(* counted cell and container registry.                                    *)
(*                                                                         *)
(* Pointers are modelled by what they point to; a NULL pointer argument is *)
(* an input flag of the action.  malloc/calloc/realloc succeed or fail     *)
(* nondeterministically (input ok).  Storage obtained from malloc/realloc  *)
(* holds Uninit until written.                                             *)
(***************************************************************************)
EXTENDS Integers, Sequences, FiniteSets, TLC

VARIABLES
    mgen_last_error,    \* mgen_error_context_t, the process-wide error context
    call,               \* the last call made by the caller and what it returned
    array,              \* mgen_dyn_array_t: size, capacity, data (the owned block)
    oob_write,          \* some element was stored at a position >= capacity
    driven,             \* the hash table the caller works on
    map,                \* map_int_int: buckets, bucket_count, size
    set,                \* set_int: buckets, bucket_count, size
    strmap,             \* mgen_str_int_map_t: buckets, bucket_count, size
    live,               \* keys the caller inserted and has not removed since
    norm,               \* a slice descriptor, a sequence length and its normalization
    scope,              \* mgen_scope_allocator: the entry list (head first) and count
    heap,               \* what happened to pointers: handed out, released, cleaned up
    cell,               \* mgen_refcounted_t: refcount, destructor, and its history
    registry,           \* mgen_container_registry_t: the entry list (head first), count
    pushed,             \* the values appended so far, while nothing else changed the sequence
    vec,                \* vec_int: data (the owned block, <<>> when NULL), size, capacity
    vec_heap,           \* out-of-block stores into and releases of the vector's block
    pool,               \* mgen_memory_pool_t: storage block, capacity, used, size; regions handed out
    minimal,            \* a container of the LLVM minimal runtime, and whether the process exited
    indexed,            \* an index and a size given to the index adapters, and what they did
    iter,               \* set_int_iter: bucket_index, current_entry, ref, and what it yielded
    stats,              \* memory_tracking_enabled, memory_stats, and the tracked blocks
    range               \* mgen_range_t: start, stop, step, current, and what it yielded

errVars == <<mgen_last_error>>
arrVars == <<array, oob_write>>
tabVars == <<driven, map, set, strmap, live>>
sliceVars == <<norm>>
memVars == <<scope, heap, cell, registry>>
vecVars == <<vec, vec_heap>>
poolVars == <<pool>>
minimalVars == <<minimal>>
indexVars == <<indexed>>
iterVars == <<iter>>
statsVars == <<stats>>
rangeVars == <<range>>
lateVars == <<indexVars, iterVars, statsVars, rangeVars>>
vars == <<mgen_last_error, call, arrVars, tabVars, sliceVars, memVars, pushed,
          vecVars, poolVars, minimalVars, lateVars>>

\* What the operations of one component leave alone (the array's callers
\* keep the record of appended values themselves).
notArr == <<tabVars, sliceVars, memVars, vecVars, poolVars, minimalVars, lateVars>>
notTab == <<arrVars, sliceVars, memVars, pushed, vecVars, poolVars,
           minimalVars, lateVars>>
notSlice == <<arrVars, tabVars, memVars, pushed, vecVars, poolVars,
             minimalVars, lateVars>>
notMem == <<arrVars, tabVars, sliceVars, pushed, vecVars, poolVars,
           minimalVars, lateVars>>
notVec == <<arrVars, tabVars, sliceVars, memVars, poolVars, minimalVars, lateVars>>
notPool == <<arrVars, tabVars, sliceVars, memVars, pushed, vecVars,
            minimalVars, lateVars>>
notMinimal == <<mgen_last_error, call, arrVars, tabVars, sliceVars, memVars,
               pushed, vecVars, poolVars, lateVars>>
notErr == <<arrVars, tabVars, sliceVars, memVars, pushed, vecVars,
           poolVars, minimalVars, lateVars>>
earlyVars == <<arrVars, tabVars, sliceVars, memVars, pushed, vecVars,
              poolVars, minimalVars>>
notIndex == <<earlyVars, iterVars, statsVars, rangeVars>>
notIter == <<arrVars, sliceVars, memVars, pushed, vecVars, poolVars,
            minimalVars, indexVars, statsVars, rangeVars>>
notStats == <<earlyVars, indexVars, iterVars, rangeVars>>
notRange == <<earlyVars, indexVars, iterVars, statsVars>>

(***************************************************************************)
(* Bounds                                                                  *)
(***************************************************************************)
MaxSize == 3            \* appends and inserts stop at this many elements
MaxRangeInt == 3        \* start and stop of a range lie in -MaxRangeInt..MaxRangeInt
MaxRangeStep == 2       \* the step of a range lies in -MaxRangeStep..MaxRangeStep
MaxYielded == 7         \* calls of mgen_range_next in one loop
MaxBlocks == 3          \* blocks of mgen_malloc and mgen_calloc live at a time
MaxTracked == 4         \* allocations counted since tracking was enabled
MaxReserve == 3         \* largest capacity passed to reserve
MaxVecSize == 3         \* pushes stop at this many elements
MaxVecReserve == 2      \* largest capacity passed to vec_int_reserve
MaxPoolAllocs == 3      \* allocations from a pool between two resets
MaxMinimalSize == 9     \* pushes to a minimal vec_int stop at this many elements
MaxMinimalEntries == 13 \* sets on a minimal map_int_int stop at this many entries
MaxSeqLen == 3          \* longest sequence a slice is normalized for
MaxSliceInt == 4        \* largest |start| and |stop| of a slice descriptor
MaxStep == 2            \* largest |step| of a slice descriptor
MaxPtrs == 3            \* distinct pointers handed to a scope
MaxEntries == 3         \* registrations in one scope
MaxRetain == 2          \* retains of one reference counted cell
MaxContainers == 2      \* distinct containers handed to a registry
MaxRegistered == 2      \* registrations in one registry

Values == {1, 2}        \* element values
Uninit == 0             \* content of storage that was never written
Cells == Values \cup {Uninit}

\* The index adapters were not called yet.
\* ret: the int returned by mgen_normalize_index; at: <<i>> when at_func was
\* called with index i, <<>> when it was not called and NULL was returned.
NoIndexed == [op |-> "none", index |-> 0, size |-> 0, ret |-> 0, at |-> <<>>]

\* No iterator was made yet.
NoIter ==
    [status |-> "none", set |-> "NULL", bucket_index |-> 0, current_entry |-> 0,
     ref |-> <<>>, yielded |-> <<>>]

\* memory_tracking_enabled = 0 and memory_stats = {0}; no block is tracked.
NoStats ==
    [enabled |-> FALSE, total_allocated |-> 0, total_freed |-> 0,
     current_allocated |-> 0, peak_allocated |-> 0, allocation_count |-> 0,
     free_count |-> 0, blocks |-> {}]

\* No range was made yet.
NoRange ==
    [status |-> "none", start |-> 0, stop |-> 0, step |-> 0, current |-> 0,
     yielded |-> <<>>,
     mgen_current_exception |-> [type |-> "MGEN_OK", message |-> ""]]

LateIdle ==
    /\ indexed = NoIndexed
    /\ iter = NoIter
    /\ stats = NoStats
    /\ range = NoRange

(***************************************************************************)
(* Error context (mgen_error_handling.c)                                   *)
(***************************************************************************)
NoError ==
    [code |-> "MGEN_OK", message |-> "", file |-> "NULL", line |-> 0,
     function |-> "NULL"]

mgen_set_error(code, message, file, line, function) ==
    [code |-> code, message |-> message, file |-> file, line |-> line,
     function |-> function]

mgen_has_error == mgen_last_error.code # "MGEN_OK"

\* The record of a call: the function, what it returned, the index it was
\* given (insert) and the element found behind the returned pointer (get),
\* and whether an allocation made during the call returned NULL.
Called(op, ret, index, out, nomem) ==
    [op |-> op, ret |-> ret, index |-> index, out |-> out, nomem |-> nomem]

mgen_clear_error ==
    /\ mgen_last_error' = NoError
    /\ call' = Called("mgen_clear_error", "void", 0, Uninit, FALSE)
    /\ UNCHANGED notErr

(***************************************************************************)
(* Dynamic array (mgen_containers_fallback.c)                              *)
(***************************************************************************)
FB == "mgen_containers_fallback.c"

MGEN_DYN_ARRAY_DEFAULT_CAPACITY == 8

MGEN_DYN_ARRAY_GROWTH_FACTOR(cap) == cap + cap \div 2

\* The block returned by malloc(element_size * n): n unwritten cells.
FreshBlock(n) == [i \in 1..n |-> Uninit]

\* realloc(data, element_size * n): the first min(n, old) cells are kept.
Realloc(data, n) ==
    [i \in 1..n |-> IF i <= Len(data) THEN data[i] ELSE Uninit]

\* memcpy of one element to position p (0-based) of the block; a position
\* outside the block leaves the block itself as it was.
Store(data, p, v) ==
    IF p < Len(data) THEN [data EXCEPT ![p + 1] = v] ELSE data

\* What a read of position p (0-based) can yield: the cell when it lies
\* inside the block, anything when it lies outside.
ReadAt(data, p) ==
    IF p < Len(data) THEN {data[p + 1]} ELSE Cells

mgen_dyn_array_new(initial_capacity) ==
    LET cap == IF initial_capacity = 0 THEN MGEN_DYN_ARRAY_DEFAULT_CAPACITY
               ELSE initial_capacity
    IN  [size |-> 0, capacity |-> cap, data |-> FreshBlock(cap)]

\* Reserve with the capacity field assigned before the result of realloc is
\* looked at.
Reserve_CapacityFirst(a, new_capacity, ok, err) ==
    IF new_capacity <= a.capacity
    THEN [ret |-> "MGEN_OK", array |-> a, err |-> err]
    ELSE IF ~ok
    THEN [ret |-> "MGEN_ERROR_MEMORY",
          array |-> [a EXCEPT !.capacity = new_capacity],
          err |-> mgen_set_error("MGEN_ERROR_MEMORY",
                     "Failed to reserve array capacity", FB, 69,
                     "mgen_dyn_array_reserve")]
    ELSE [ret |-> "MGEN_OK",
          array |-> [a EXCEPT !.data = Realloc(a.data, new_capacity),
                              !.capacity = new_capacity],
          err |-> err]

\* Result of mgen_dyn_array_reserve on a non-NULL array: the status, the
\* array and the error context afterwards.  ok: realloc succeeds.
Reserve(a, new_capacity, ok, err) ==
    IF new_capacity <= a.capacity
    THEN [ret |-> "MGEN_OK", array |-> a, err |-> err]
    ELSE IF ~ok
    THEN [ret |-> "MGEN_ERROR_MEMORY", array |-> a,
          err |-> mgen_set_error("MGEN_ERROR_MEMORY",
                     "Failed to reserve array capacity", FB, 69,
                     "mgen_dyn_array_reserve")]
    ELSE [ret |-> "MGEN_OK",
          array |-> [a EXCEPT !.data = Realloc(a.data, new_capacity),
                              !.capacity = new_capacity],
          err |-> err]

\* Capacity requested by append when size >= capacity.
AppendNewCapacity(cap) ==
    IF MGEN_DYN_ARRAY_GROWTH_FACTOR(cap) <= cap THEN cap + 1
    ELSE MGEN_DYN_ARRAY_GROWTH_FACTOR(cap)

\* Capacity requested by insert when size >= capacity.
InsertNewCapacity(cap) == MGEN_DYN_ARRAY_GROWTH_FACTOR(cap)

\* What an allocation call can do: succeed or return NULL.  When the path
\* taken makes no allocation call there is nothing to choose.
AllocOutcomes(allocates) == IF allocates THEN BOOLEAN ELSE {TRUE}

Fail(op, code, message, line, function) ==
    /\ mgen_last_error' = mgen_set_error(code, message, FB, line, function)
    /\ call' = Called(op, code, 0, Uninit, FALSE)
    /\ UNCHANGED arrVars

mgen_dyn_array_reserve(isNull, new_capacity) ==
    IF isNull
    THEN Fail("mgen_dyn_array_reserve", "MGEN_ERROR_VALUE", "Array is NULL",
              59, "mgen_dyn_array_reserve")
    ELSE \E ok \in AllocOutcomes(new_capacity > array.capacity) :
         LET r == Reserve(array, new_capacity, ok, mgen_last_error)
         IN  /\ array' = r.array
             /\ mgen_last_error' = r.err
             /\ call' = Called("mgen_dyn_array_reserve", r.ret, 0, Uninit, ~ok)
             /\ UNCHANGED oob_write

\* mgen_dyn_array_append on a non-NULL array with a non-NULL element: the
\* status, the array, the error context and the out-of-block flag afterwards.
AppendResult(a0, element, ok, err, oob) ==
    LET r == IF a0.size >= a0.capacity
             THEN Reserve(a0, AppendNewCapacity(a0.capacity), ok, err)
             ELSE [ret |-> "MGEN_OK", array |-> a0, err |-> err]
        a == r.array
    IN  IF r.ret # "MGEN_OK"
        THEN [ret |-> r.ret, array |-> a, err |-> r.err, oob |-> oob]
        ELSE [ret |-> "MGEN_OK",
              array |-> [a EXCEPT !.data = Store(a.data, a.size, element),
                                  !.size = a.size + 1],
              err |-> r.err,
              oob |-> (oob \/ a.size >= a.capacity)]

mgen_dyn_array_append(isNull, elemNull, element) ==
    IF isNull
    THEN Fail("mgen_dyn_array_append", "MGEN_ERROR_VALUE", "Array is NULL",
              80, "mgen_dyn_array_append")
    ELSE IF elemNull
    THEN Fail("mgen_dyn_array_append", "MGEN_ERROR_VALUE", "Element is NULL",
              85, "mgen_dyn_array_append")
    ELSE \E ok \in AllocOutcomes(array.size >= array.capacity) :
         LET r == AppendResult(array, element, ok, mgen_last_error, oob_write)
         IN  /\ array' = r.array
             /\ mgen_last_error' = r.err
             /\ oob_write' = r.oob
             /\ call' = Called("mgen_dyn_array_append", r.ret, 0, Uninit, ~ok)

\* memmove of the elements index..size-1 one position up, then memcpy of the
\* new element to position index.  Every destination inside the block has its
\* source inside the block.
ShiftUp(data, index, size, element) ==
    [i \in 1..Len(data) |->
        IF i - 1 = index THEN element
        ELSE IF i - 1 > index /\ i - 1 <= size THEN data[i - 1]
        ELSE data[i]]

\* mgen_dyn_array_insert on a non-NULL array with a non-NULL element and
\* index <= size.  The highest position written is position size.
InsertResult(a0, index, element, ok, err, oob) ==
    LET r == IF a0.size >= a0.capacity
             THEN Reserve(a0, InsertNewCapacity(a0.capacity), ok, err)
             ELSE [ret |-> "MGEN_OK", array |-> a0, err |-> err]
        a == r.array
    IN  IF r.ret # "MGEN_OK"
        THEN [ret |-> r.ret, array |-> a, err |-> r.err, oob |-> oob]
        ELSE [ret |-> "MGEN_OK",
              array |-> [a EXCEPT
                           !.data = ShiftUp(a.data, index, a.size, element),
                           !.size = a.size + 1],
              err |-> r.err,
              oob |-> (oob \/ a.size >= a.capacity)]

mgen_dyn_array_insert(isNull, index, elemNull, element) ==
    IF isNull
    THEN Fail("mgen_dyn_array_insert", "MGEN_ERROR_VALUE", "Array is NULL",
              112, "mgen_dyn_array_insert")
    ELSE IF elemNull
    THEN Fail("mgen_dyn_array_insert", "MGEN_ERROR_VALUE", "Element is NULL",
              117, "mgen_dyn_array_insert")
    ELSE IF index > array.size
    THEN Fail("mgen_dyn_array_insert", "MGEN_ERROR_INDEX",
              "Insert index out of bounds", 122, "mgen_dyn_array_insert")
    ELSE \E ok \in AllocOutcomes(array.size >= array.capacity
                                  /\ InsertNewCapacity(array.capacity)
                                       > array.capacity) :
         LET r == InsertResult(array, index, element, ok, mgen_last_error,
                               oob_write)
         IN  /\ array' = r.array
             /\ mgen_last_error' = r.err
             /\ oob_write' = r.oob
             /\ call' = Called("mgen_dyn_array_insert", r.ret,
                               IF r.ret = "MGEN_OK" THEN index ELSE 0, Uninit,
                               ~ok)

\* What the read of the first cell behind the block can yield during the
\* memmove of remove; it is read only when size - 1 > capacity - 1.
LastRead(a) == IF a.capacity < a.size THEN Cells ELSE {Uninit}

\* memmove of the elements index+1..size-1 one position down.  last is what
\* the read of a source outside the block yielded.
ShiftDown(data, index, size, last) ==
    [i \in 1..Len(data) |->
        IF i - 1 >= index /\ i - 1 < size - 1
        THEN (IF i + 1 <= Len(data) THEN data[i + 1] ELSE last)
        ELSE data[i]]

mgen_dyn_array_remove(isNull, index) ==
    IF isNull
    THEN Fail("mgen_dyn_array_remove", "MGEN_ERROR_VALUE", "Array is NULL",
              153, "mgen_dyn_array_remove")
    ELSE IF index >= array.size
    THEN Fail("mgen_dyn_array_remove", "MGEN_ERROR_INDEX",
              "Remove index out of bounds", 158, "mgen_dyn_array_remove")
    ELSE /\ \E last \in LastRead(array) :
            array' = [array EXCEPT
                        !.data = ShiftDown(array.data, index, array.size, last),
                        !.size = array.size - 1]
         /\ oob_write' = (oob_write \/ (index < array.size - 1
                                         /\ array.size - 2 >= array.capacity))
         /\ call' = Called("mgen_dyn_array_remove", "MGEN_OK", 0, Uninit, FALSE)
         /\ UNCHANGED mgen_last_error

mgen_dyn_array_get(isNull, index) ==
    IF isNull
    THEN /\ mgen_last_error' = mgen_set_error("MGEN_ERROR_VALUE", "Array is NULL",
                                    FB, 176, "mgen_dyn_array_get")
         /\ call' = Called("mgen_dyn_array_get", "NULL", 0, Uninit, FALSE)
         /\ UNCHANGED arrVars
    ELSE IF index >= array.size
    THEN /\ mgen_last_error' = mgen_set_error("MGEN_ERROR_INDEX",
                                    "Get index out of bounds", FB, 181,
                                    "mgen_dyn_array_get")
         /\ call' = Called("mgen_dyn_array_get", "NULL", 0, Uninit, FALSE)
         /\ UNCHANGED arrVars
    ELSE /\ \E out \in ReadAt(array.data, index) :
            call' = Called("mgen_dyn_array_get", "ptr", 0, out, FALSE)
         /\ UNCHANGED <<mgen_last_error, arrVars>>

mgen_dyn_array_set(isNull, index, elemNull, element) ==
    IF isNull
    THEN Fail("mgen_dyn_array_set", "MGEN_ERROR_VALUE", "Array is NULL",
              190, "mgen_dyn_array_set")
    ELSE IF elemNull
    THEN Fail("mgen_dyn_array_set", "MGEN_ERROR_VALUE", "Element is NULL",
              195, "mgen_dyn_array_set")
    ELSE IF index >= array.size
    THEN Fail("mgen_dyn_array_set", "MGEN_ERROR_INDEX",
              "Set index out of bounds", 200, "mgen_dyn_array_set")
    ELSE /\ array' = [array EXCEPT !.data = Store(array.data, index, element)]
         /\ oob_write' = (oob_write \/ index >= array.capacity)
         /\ call' = Called("mgen_dyn_array_set", "MGEN_OK", 0, Uninit, FALSE)
         /\ UNCHANGED mgen_last_error

\* As mgen_dyn_array_clear, giving the block back as well.
mgen_dyn_array_clear_Release(isNull) ==
    /\ array' = IF isNull THEN array
                ELSE [size |-> 0, capacity |-> 0, data |-> <<>>]
    /\ call' = Called("mgen_dyn_array_clear", "void", 0, Uninit, FALSE)
    /\ UNCHANGED <<mgen_last_error, oob_write>>

mgen_dyn_array_clear(isNull) ==
    /\ array' = IF isNull THEN array ELSE [array EXCEPT !.size = 0]
    /\ call' = Called("mgen_dyn_array_clear", "void", 0, Uninit, FALSE)
    /\ UNCHANGED <<mgen_last_error, oob_write>>

mgen_dyn_array_shrink_to_fit(isNull) ==
    IF isNull
    THEN Fail("mgen_dyn_array_shrink_to_fit", "MGEN_ERROR_VALUE",
              "Array is NULL", 241, "mgen_dyn_array_shrink_to_fit")
    ELSE IF array.size = 0 \/ array.size = array.capacity
    THEN /\ call' = Called("mgen_dyn_array_shrink_to_fit", "MGEN_OK", 0, Uninit,
                           FALSE)
         /\ UNCHANGED <<mgen_last_error, arrVars>>
    ELSE \E ok \in AllocOutcomes(TRUE) :
         IF ~ok
         THEN /\ mgen_last_error' =
                    mgen_set_error("MGEN_ERROR_MEMORY", "Failed to shrink array",
                                   FB, 256, "mgen_dyn_array_shrink_to_fit")
              /\ call' = Called("mgen_dyn_array_shrink_to_fit",
                                "MGEN_ERROR_MEMORY", 0, Uninit, TRUE)
              /\ UNCHANGED arrVars
         ELSE /\ array' = [array EXCEPT
                             !.data = Realloc(array.data, array.size),
                             !.capacity = array.size]
              /\ call' = Called("mgen_dyn_array_shrink_to_fit", "MGEN_OK", 0,
                                Uninit, FALSE)
              /\ UNCHANGED <<mgen_last_error, oob_write>>

mgen_dyn_array_pop_back(isNull) ==
    IF isNull
    THEN Fail("mgen_dyn_array_pop_back", "MGEN_ERROR_VALUE", "Array is NULL",
              275, "mgen_dyn_array_pop_back")
    ELSE IF array.size = 0
    THEN Fail("mgen_dyn_array_pop_back", "MGEN_ERROR_INDEX",
              "Cannot pop from empty array", 280, "mgen_dyn_array_pop_back")
    ELSE /\ array' = [array EXCEPT !.size = array.size - 1]
         /\ call' = Called("mgen_dyn_array_pop_back", "MGEN_OK", 0, Uninit, FALSE)
         /\ UNCHANGED <<mgen_last_error, oob_write>>

(***************************************************************************)
(* Chained hash tables (mgen_map_int_int.c, mgen_set_int.c,                *)
(* mgen_str_int_map.c).  The bucket array is a sequence of chains, bucket  *)
(* i of the code at position i + 1; a chain is the sequence of its         *)
(* entries, head first.  A NULL bucket array is the empty sequence.        *)
(***************************************************************************)
DEFAULT_BUCKET_COUNT == 16

IntKeys == {-1, 1, 17, 2}       \* int keys; -1, 1 and 17 share bucket 1
Vals == {10, 20}                \* int values
\* String keys as their characters: "a", "q" (both in bucket 6 of 16), "ab".
StrKeys == {<<97>>, <<113>>, <<97, 98>>}
StrCaps == {DEFAULT_BUCKET_COUNT, 2}    \* capacities given at creation

EmptyBuckets(n) == [i \in 1..n |-> <<>>]

\* Position of the first entry of chain with the key, 0 when there is none.
ChainFind(chain, key) ==
    IF \E i \in 1..Len(chain) : chain[i].key = key
    THEN CHOOSE i \in 1..Len(chain) :
            /\ chain[i].key = key
            /\ \A j \in 1..(i - 1) : chain[j].key # key
    ELSE 0

\* The chain with its entry at position i unlinked.
\* An update that leaves the stored value as it was.
UpdateValue_Keep(chain, i, value) == chain

\* The chain after entry i's value is overwritten.
UpdateValue(chain, i, value) == [chain EXCEPT ![i].value = value]

\* Unlinking that also drops the rest of the chain.
ChainUnlink_DropRest(chain, i) == SubSeq(chain, 1, i - 1)

ChainUnlink(chain, i) ==
    [j \in 1..(Len(chain) - 1) |-> IF j < i THEN chain[j] ELSE chain[j + 1]]

\* A hash that keeps the sign of the key.
map_int_int_hash_Signed(key, bucket_count) == key % bucket_count

\* |key| as unsigned, modulo the bucket count (for key > INT_MIN).
map_int_int_hash(key, bucket_count) ==
    (IF key < 0 THEN -key ELSE key) % bucket_count

MI == "mgen_map_int_int.c"

\* The zero-valued map_int_int ({0}, and what drop leaves behind).
MapZero == [buckets |-> <<>>, bucket_count |-> 0, size |-> 0]

\* map_int_int_init with calloc succeeding.
map_int_int_init ==
    [buckets |-> EmptyBuckets(DEFAULT_BUCKET_COUNT),
     bucket_count |-> DEFAULT_BUCKET_COUNT, size |-> 0]

\* map_int_int_insert on a non-NULL map.  okBuckets: the calloc of the lazy
\* initialization succeeds; okEntry: the malloc of the entry succeeds.
MapInsertResult(m0, key, value, okBuckets, okEntry, err) ==
    IF m0.buckets = <<>> /\ ~okBuckets
    THEN [ret |-> "false", map |-> [m0 EXCEPT !.bucket_count = 0],
          err |-> mgen_set_error("MGEN_ERROR_MEMORY",
                     "Failed to allocate map buckets", MI, 70,
                     "map_int_int_insert")]
    ELSE LET m == IF m0.buckets = <<>>
                  THEN [m0 EXCEPT
                          !.bucket_count = DEFAULT_BUCKET_COUNT,
                          !.buckets = EmptyBuckets(DEFAULT_BUCKET_COUNT)]
                  ELSE m0
             index == map_int_int_hash(key, m.bucket_count)
             chain == m.buckets[index + 1]
             i == ChainFind(chain, key)
         IN  IF i # 0
             THEN [ret |-> "false",
                   map |-> [m EXCEPT !.buckets[index + 1] =
                                         UpdateValue(chain, i, value)],
                   err |-> err]
             ELSE IF ~okEntry
             THEN [ret |-> "false", map |-> m,
                   err |-> mgen_set_error("MGEN_ERROR_MEMORY",
                              "Failed to allocate map entry", MI, 27,
                              "map_int_int_entry_new")]
             ELSE [ret |-> "true",
                   map |-> [m EXCEPT
                              !.buckets[index + 1] =
                                  <<[key |-> key, value |-> value]>> \o chain,
                              !.size = m.size + 1],
                   err |-> err]

\* map_int_int_get: <<v>> for a pointer to the stored value v, <<>> for NULL.
map_int_int_get(m, key) ==
    IF m.buckets = <<>> THEN <<>>
    ELSE LET chain == m.buckets[map_int_int_hash(key, m.bucket_count) + 1]
             i == ChainFind(chain, key)
         IN  IF i # 0 THEN <<chain[i].value>> ELSE <<>>

map_int_int_contains(m, key) ==
    IF m.buckets = <<>> THEN FALSE
    ELSE ChainFind(m.buckets[map_int_int_hash(key, m.bucket_count) + 1], key) # 0

map_int_int_size(m) == m.size

map_int_int_empty(m) == m.size = 0

\* map_int_int_remove without "map->size--".
MapRemoveResult_KeepSize(m, key) ==
    LET index == map_int_int_hash(key, m.bucket_count)
        chain == m.buckets[index + 1]
        i == ChainFind(chain, key)
    IN  IF i # 0
        THEN [ret |-> "true",
              map |-> [m EXCEPT !.buckets[index + 1] = ChainUnlink(chain, i)]]
        ELSE [ret |-> "false", map |-> m]

\* map_int_int_remove on a map with a bucket array.
MapRemoveResult(m, key) ==
    LET index == map_int_int_hash(key, m.bucket_count)
        chain == m.buckets[index + 1]
        i == ChainFind(chain, key)
    IN  IF i # 0
        THEN [ret |-> "true",
              map |-> [m EXCEPT !.buckets[index + 1] = ChainUnlink(chain, i),
                                !.size = m.size - 1]]
        ELSE [ret |-> "false", map |-> m]

\* A clear that also gives the bucket array back.
MapClearResult_Release(m) == [buckets |-> <<>>, bucket_count |-> 0, size |-> 0]

MapClearResult(m) ==
    IF m.buckets = <<>> THEN m
    ELSE [m EXCEPT !.buckets = EmptyBuckets(m.bucket_count), !.size = 0]

\* A drop that stops after map_int_int_clear.
MapDropResult_ClearOnly(m) == MapClearResult(m)

MapDropResult(m) ==
    [MapClearResult(m) EXCEPT !.buckets = <<>>, !.bucket_count = 0, !.size = 0]

TabCall(op, ret, nomem) == Called(op, ret, 0, Uninit, nomem)

map_int_int_insert(isNull, key, value) ==
    IF isNull
    THEN /\ mgen_last_error' = mgen_set_error("MGEN_ERROR_VALUE", "NULL map", MI,
                                    61, "map_int_int_insert")
         /\ call' = TabCall("map_int_int_insert", "false", FALSE)
         /\ UNCHANGED <<map, live>>
    ELSE \E okBuckets \in AllocOutcomes(map.buckets = <<>>) :
         \E okEntry \in AllocOutcomes(okBuckets
                                      /\ ~map_int_int_contains(map, key)) :
         LET r == MapInsertResult(map, key, value, okBuckets, okEntry,
                                  mgen_last_error)
         IN  /\ map' = r.map
             /\ mgen_last_error' = r.err
             /\ call' = TabCall("map_int_int_insert", r.ret,
                                ~(okBuckets /\ okEntry))
             /\ live' = IF okBuckets /\ okEntry THEN live \cup {key} ELSE live

map_int_int_remove(isNull, key) ==
    IF isNull \/ map.buckets = <<>>
    THEN /\ mgen_last_error' = mgen_set_error("MGEN_ERROR_VALUE",
                                    "NULL or uninitialized map", MI, 140,
                                    "map_int_int_remove")
         /\ call' = TabCall("map_int_int_remove", "false", FALSE)
         /\ live' = IF isNull THEN live ELSE live \ {key}
         /\ UNCHANGED map
    ELSE LET r == MapRemoveResult(map, key)
         IN  /\ map' = r.map
             /\ call' = TabCall("map_int_int_remove", r.ret, FALSE)
             /\ live' = live \ {key}
             /\ UNCHANGED mgen_last_error

map_int_int_clear(isNull) ==
    /\ map' = IF isNull THEN map ELSE MapClearResult(map)
    /\ live' = IF isNull THEN live ELSE {}
    /\ call' = TabCall("map_int_int_clear", "void", FALSE)
    /\ UNCHANGED mgen_last_error

map_int_int_drop(isNull) ==
    /\ map' = IF isNull THEN map ELSE MapDropResult(map)
    /\ live' = IF isNull THEN live ELSE {}
    /\ call' = TabCall("map_int_int_drop", "void", FALSE)
    /\ UNCHANGED mgen_last_error

\* |value| as unsigned, modulo the bucket count (for value > INT_MIN).
hash_int(value, bucket_count) ==
    (IF value < 0 THEN -value ELSE value) % bucket_count

SI == "mgen_set_int.c"

\* The zero-valued set_int.
SetZero == [buckets |-> <<>>, bucket_count |-> 0, size |-> 0]

\* set_int_init with calloc succeeding.
set_int_init ==
    [buckets |-> EmptyBuckets(DEFAULT_BUCKET_COUNT),
     bucket_count |-> DEFAULT_BUCKET_COUNT, size |-> 0]

\* Position of the first entry of a set chain holding value, 0 when none.
SetChainFind(chain, value) ==
    IF \E i \in 1..Len(chain) : chain[i].value = value
    THEN CHOOSE i \in 1..Len(chain) :
            /\ chain[i].value = value
            /\ \A j \in 1..(i - 1) : chain[j].value # value
    ELSE 0

\* set_int_insert on a non-NULL set.
SetInsertResult(s0, value, okBuckets, okEntry, err) ==
    IF s0.buckets = <<>> /\ ~okBuckets
    THEN [ret |-> "false", set |-> [s0 EXCEPT !.bucket_count = 0],
          err |-> mgen_set_error("MGEN_ERROR_MEMORY",
                     "Failed to allocate set buckets", SI, 70, "set_int_insert")]
    ELSE LET s == IF s0.buckets = <<>>
                  THEN [s0 EXCEPT
                          !.bucket_count = DEFAULT_BUCKET_COUNT,
                          !.buckets = EmptyBuckets(DEFAULT_BUCKET_COUNT)]
                  ELSE s0
             index == hash_int(value, s.bucket_count)
             chain == s.buckets[index + 1]
         IN  IF SetChainFind(chain, value) # 0
             THEN [ret |-> "false", set |-> s, err |-> err]
             ELSE IF ~okEntry
             THEN [ret |-> "false", set |-> s,
                   err |-> mgen_set_error("MGEN_ERROR_MEMORY",
                              "Failed to allocate set entry", SI, 28,
                              "set_int_entry_new")]
             ELSE [ret |-> "true",
                   set |-> [s EXCEPT
                              !.buckets[index + 1] = <<[value |-> value]>> \o chain,
                              !.size = s.size + 1],
                   err |-> err]

set_int_contains(s, value) ==
    IF s.buckets = <<>> THEN FALSE
    ELSE SetChainFind(s.buckets[hash_int(value, s.bucket_count) + 1], value) # 0

set_int_size(s) == s.size

set_int_empty(s) == s.size = 0

\* set_int_remove on a set with a bucket array.
SetRemoveResult(s, value) ==
    LET index == hash_int(value, s.bucket_count)
        chain == s.buckets[index + 1]
        i == SetChainFind(chain, value)
    IN  IF i # 0
        THEN [ret |-> "true",
              set |-> [s EXCEPT !.buckets[index + 1] = ChainUnlink(chain, i),
                                !.size = s.size - 1]]
        ELSE [ret |-> "false", set |-> s]

\* A clear that empties the chains without "set->size = 0".
SetClearResult_KeepSize(s) ==
    IF s.buckets = <<>> THEN s
    ELSE [s EXCEPT !.buckets = EmptyBuckets(s.bucket_count)]

SetClearResult(s) ==
    IF s.buckets = <<>> THEN s
    ELSE [s EXCEPT !.buckets = EmptyBuckets(s.bucket_count), !.size = 0]

SetDropResult(s) ==
    [SetClearResult(s) EXCEPT !.buckets = <<>>, !.bucket_count = 0, !.size = 0]

set_int_insert(isNull, value) ==
    IF isNull
    THEN /\ mgen_last_error' = mgen_set_error("MGEN_ERROR_VALUE", "NULL set", SI,
                                    61, "set_int_insert")
         /\ call' = TabCall("set_int_insert", "false", FALSE)
         /\ UNCHANGED <<set, live>>
    ELSE \E okBuckets \in AllocOutcomes(set.buckets = <<>>) :
         \E okEntry \in AllocOutcomes(okBuckets
                                      /\ ~set_int_contains(set, value)) :
         LET r == SetInsertResult(set, value, okBuckets, okEntry,
                                  mgen_last_error)
         IN  /\ set' = r.set
             /\ mgen_last_error' = r.err
             /\ call' = TabCall("set_int_insert", r.ret, ~(okBuckets /\ okEntry))
             /\ live' = IF okBuckets /\ okEntry THEN live \cup {value} ELSE live

set_int_remove(isNull, value) ==
    IF isNull \/ set.buckets = <<>>
    THEN /\ mgen_last_error' = mgen_set_error("MGEN_ERROR_VALUE",
                                    "NULL or uninitialized set", SI, 120,
                                    "set_int_remove")
         /\ call' = TabCall("set_int_remove", "false", FALSE)
         /\ live' = IF isNull THEN live ELSE live \ {value}
         /\ UNCHANGED set
    ELSE LET r == SetRemoveResult(set, value)
         IN  /\ set' = r.set
             /\ call' = TabCall("set_int_remove", r.ret, FALSE)
             /\ live' = live \ {value}
             /\ UNCHANGED mgen_last_error

set_int_clear(isNull) ==
    /\ set' = IF isNull THEN set ELSE SetClearResult(set)
    /\ live' = IF isNull THEN live ELSE {}
    /\ call' = TabCall("set_int_clear", "void", FALSE)
    /\ UNCHANGED mgen_last_error

set_int_drop(isNull) ==
    /\ set' = IF isNull THEN set ELSE SetDropResult(set)
    /\ live' = IF isNull THEN live ELSE {}
    /\ call' = TabCall("set_int_drop", "void", FALSE)
    /\ UNCHANGED mgen_last_error

\* djb2 over the characters of the key: hash * 33 + c from 5381.  For the
\* keys of StrKeys the unsigned long does not wrap.
RECURSIVE hash_from(_, _)
hash_from(hash, str) ==
    IF str = <<>> THEN hash
    ELSE hash_from(hash * 33 + Head(str), Tail(str))

hash_string(str) == hash_from(5381, str)

SM == "mgen_str_int_map.c"

\* mgen_str_int_map_new_with_capacity with both allocations succeeding.
\* freed: mgen_str_int_map_free was called on the map.
\* key_copies: for each key, the number of strdup copies of it that are
\* allocated and not yet released; key_freed_twice: free was called on a key
\* copy that had been released already.
mgen_str_int_map_new_with_capacity(capacity) ==
    [buckets |-> EmptyBuckets(capacity), bucket_count |-> capacity, size |-> 0,
     freed |-> FALSE, key_copies |-> [k \in StrKeys |-> 0],
     key_freed_twice |-> FALSE]

\* entry->key = strdup(key) succeeding.
KeyDup(m, key) == [m EXCEPT !.key_copies[key] = @ + 1]

\* free(entry->key) of an entry that holds a copy of key.
KeyFree(m, key) ==
    IF m.key_copies[key] > 0
    THEN [m EXCEPT !.key_copies[key] = @ - 1]
    ELSE [m EXCEPT !.key_freed_twice = TRUE]

\* entry_free on the chain from its entry i on: free(entry->key) and
\* free(entry) for every entry of the chain.
RECURSIVE entry_free(_, _, _)
entry_free(m, chain, i) ==
    IF i > Len(chain) THEN m
    ELSE entry_free(KeyFree(m, chain[i].key), chain, i + 1)

\* mgen_str_int_map_insert on a non-NULL map with a non-NULL key.  okEntry:
\* the malloc of the entry succeeds; okKey: the strdup of the key succeeds.
StrInsertResult(m, key, value, okEntry, okKey, err) ==
    LET index == hash_string(key) % m.bucket_count
        chain == m.buckets[index + 1]
        i == ChainFind(chain, key)
    IN  IF i # 0
        THEN [ret |-> "false",
              map |-> [m EXCEPT !.buckets[index + 1] =
                                    UpdateValue(chain, i, value)],
              err |-> err]
        ELSE IF ~okEntry
        THEN [ret |-> "false", map |-> m,
              err |-> mgen_set_error("MGEN_ERROR_MEMORY",
                         "Failed to allocate map entry", SM, 32, "entry_new")]
        ELSE IF ~okKey
        THEN [ret |-> "false", map |-> m,
              err |-> mgen_set_error("MGEN_ERROR_MEMORY",
                         "Failed to duplicate key", SM, 39, "entry_new")]
        ELSE [ret |-> "true",
              map |-> [KeyDup(m, key) EXCEPT
                         !.buckets[index + 1] =
                             <<[key |-> key, value |-> value]>> \o chain,
                         !.size = m.size + 1],
              err |-> err]

\* mgen_str_int_map_get: <<v>> for a pointer to the stored value, <<>> for NULL.
mgen_str_int_map_get(m, key) ==
    LET chain == m.buckets[(hash_string(key) % m.bucket_count) + 1]
        i == ChainFind(chain, key)
    IN  IF i # 0 THEN <<chain[i].value>> ELSE <<>>

mgen_str_int_map_contains(m, key) == mgen_str_int_map_get(m, key) # <<>>

mgen_str_int_map_size(m) == m.size

\* As StrRemoveResult, without free(entry->key).
StrRemoveResult_KeepKey(m, key) ==
    LET index == hash_string(key) % m.bucket_count
        chain == m.buckets[index + 1]
        i == ChainFind(chain, key)
    IN  IF i # 0
        THEN [ret |-> "true",
              map |-> [m EXCEPT !.buckets[index + 1] = ChainUnlink(chain, i),
                                !.size = m.size - 1]]
        ELSE [ret |-> "false", map |-> m]

StrRemoveResult(m, key) ==
    LET index == hash_string(key) % m.bucket_count
        chain == m.buckets[index + 1]
        i == ChainFind(chain, key)
    IN  IF i # 0
        THEN [ret |-> "true",
              map |-> [KeyFree(m, chain[i].key) EXCEPT
                         !.buckets[index + 1] = ChainUnlink(chain, i),
                         !.size = m.size - 1]]
        ELSE [ret |-> "false", map |-> m]

\* mgen_str_int_map_clear on a non-NULL map, from bucket b on: entry_free on
\* every non-empty bucket, the bucket set to NULL, then size = 0.
RECURSIVE StrClearResult(_, _)
StrClearResult(m, b) ==
    IF b > m.bucket_count THEN [m EXCEPT !.size = 0]
    ELSE StrClearResult([entry_free(m, m.buckets[b], 1)
                            EXCEPT !.buckets[b] = <<>>], b + 1)

\* nullArg: the map or the key is NULL.
mgen_str_int_map_insert(nullArg, key, value) ==
    IF nullArg
    THEN /\ mgen_last_error' = mgen_set_error("MGEN_ERROR_VALUE",
                                    "NULL map or key", SM, 85,
                                    "mgen_str_int_map_insert")
         /\ call' = TabCall("mgen_str_int_map_insert", "false", FALSE)
         /\ UNCHANGED <<strmap, live>>
    ELSE \E okEntry \in AllocOutcomes(~mgen_str_int_map_contains(strmap, key)) :
         \E okKey \in AllocOutcomes(okEntry
                         /\ ~mgen_str_int_map_contains(strmap, key)) :
         LET r == StrInsertResult(strmap, key, value, okEntry, okKey,
                                  mgen_last_error)
         IN  /\ strmap' = r.map
             /\ mgen_last_error' = r.err
             /\ call' = TabCall("mgen_str_int_map_insert", r.ret,
                                ~(okEntry /\ okKey))
             /\ live' = IF okEntry /\ okKey THEN live \cup {key} ELSE live

mgen_str_int_map_remove(nullArg, key) ==
    IF nullArg
    THEN /\ call' = TabCall("mgen_str_int_map_remove", "false", FALSE)
         /\ UNCHANGED <<strmap, live, mgen_last_error>>
    ELSE LET r == StrRemoveResult(strmap, key)
         IN  /\ strmap' = r.map
             /\ call' = TabCall("mgen_str_int_map_remove", r.ret, FALSE)
             /\ live' = live \ {key}
             /\ UNCHANGED mgen_last_error

mgen_str_int_map_clear(isNull) ==
    /\ strmap' = IF isNull THEN strmap ELSE StrClearResult(strmap, 1)
    /\ live' = IF isNull THEN live ELSE {}
    /\ call' = TabCall("mgen_str_int_map_clear", "void", FALSE)
    /\ UNCHANGED mgen_last_error

\* clear, then the bucket array and the map itself are released.
mgen_str_int_map_free(isNull) ==
    /\ strmap' = IF isNull THEN strmap
                 ELSE [StrClearResult(strmap, 1) EXCEPT !.freed = TRUE]
    /\ live' = IF isNull THEN live ELSE {}
    /\ call' = TabCall("mgen_str_int_map_free", "void", FALSE)
    /\ UNCHANGED mgen_last_error

(***************************************************************************)
(* Slice normalizer (mgen_python_ops.c)                                    *)
(***************************************************************************)
PO == "mgen_python_ops.c"

\* size_t is modelled with 30 bits: a negative int converted to size_t wraps
\* to the top of the range, every other quantity stays far below it.
SizeModulus == 2 ^ 30

\* (size_t)i
ToSize(i) == i % SizeModulus

abs(i) == IF i < 0 THEN -i ELSE i

\* mgen_python_slice_t
Slice(start, stop, step, has_start, has_stop, has_step) ==
    [start |-> start, stop |-> stop, step |-> step, has_start |-> has_start,
     has_stop |-> has_stop, has_step |-> has_step]

mgen_slice_new == Slice(0, 0, 1, FALSE, FALSE, FALSE)
mgen_slice_start_stop(start, stop) == Slice(start, stop, 1, TRUE, TRUE, FALSE)
mgen_slice_full(start, stop, step) == Slice(start, stop, step, TRUE, TRUE, TRUE)

\* The adjustments without "if (v < 0) v += (int)seq_len".
AdjustBound_NoWrap(v, step, seq_len) ==
    LET b == IF v < 0 THEN (IF step > 0 THEN 0 ELSE -1) ELSE v
    IN  IF b >= seq_len THEN (IF step > 0 THEN seq_len ELSE seq_len - 1) ELSE b

\* The three adjustments applied to start and to stop alike: add the length
\* to a negative value, then clamp below and above.
AdjustBound(v, step, seq_len) ==
    LET a == IF v < 0 THEN v + seq_len ELSE v
        b == IF a < 0 THEN (IF step > 0 THEN 0 ELSE -1) ELSE a
    IN  IF b >= seq_len THEN (IF step > 0 THEN seq_len ELSE seq_len - 1) ELSE b

\* The mgen_normalized_slice_t written for a slice whose step is not zero.
NormalizedSlice(slice, seq_len) ==
    LET step == IF slice.has_step THEN slice.step ELSE 1
        start == AdjustBound(IF slice.has_start THEN slice.start
                             ELSE (IF step > 0 THEN 0 ELSE seq_len - 1),
                             step, seq_len)
        stop == AdjustBound(IF slice.has_stop THEN slice.stop
                            ELSE (IF step > 0 THEN seq_len ELSE -1),
                            step, seq_len)
        rstart == ToSize(start)
        rstop == ToSize(stop)
        rstep == ToSize(abs(step))
    IN  [start |-> rstart, stop |-> rstop, step |-> rstep,
         length |-> IF step > 0
                    THEN (IF rstart < rstop
                          THEN ToSize(rstop - rstart + rstep - 1) \div rstep
                          ELSE 0)
                    ELSE (IF rstart > rstop
                          THEN ToSize(rstart - rstop + rstep - 1) \div rstep
                          ELSE 0)]

\* The result object before the call: nothing the caller relies on.
NoResult == [start |-> 0, stop |-> 0, step |-> 0, length |-> 0]

SliceCall(ret) == Called("mgen_normalize_python_slice", ret, 0, Uninit, FALSE)

\* A test that also turns negative steps away.
StepIsZero_OrNegative(slice) == slice.has_step /\ slice.step <= 0

\* slice->has_step && slice->step == 0
StepIsZero(slice) == slice.has_step /\ slice.step = 0

\* nullArg: slice or result is NULL.
mgen_normalize_python_slice(nullArg) ==
    IF nullArg
    THEN /\ mgen_last_error' = mgen_set_error("MGEN_ERROR_VALUE",
                                    "Invalid slice parameters", PO, 273,
                                    "mgen_normalize_python_slice")
         /\ call' = SliceCall("MGEN_ERROR_VALUE")
         /\ norm' = [norm EXCEPT !.ret = "MGEN_ERROR_VALUE", !.null = TRUE]
    ELSE IF StepIsZero(norm.slice)
    THEN /\ mgen_last_error' = mgen_set_error("MGEN_ERROR_VALUE",
                                    "Slice step cannot be zero", PO, 278,
                                    "mgen_normalize_python_slice")
         /\ call' = SliceCall("MGEN_ERROR_VALUE")
         /\ norm' = [norm EXCEPT !.ret = "MGEN_ERROR_VALUE"]
    ELSE /\ norm' = [norm EXCEPT
                       !.result = NormalizedSlice(norm.slice, norm.seq_len),
                       !.ret = "MGEN_OK"]
         /\ call' = SliceCall("MGEN_OK")
         /\ UNCHANGED mgen_last_error

\* No slice is being normalized.
SliceIdle ==
    norm = [slice |-> mgen_slice_new, seq_len |-> 0, result |-> NoResult,
            ret |-> "none", null |-> FALSE]

(***************************************************************************)
(* Scope allocator, reference counted cell (mgen_memory_ops.c)             *)
(***************************************************************************)
MO == "mgen_memory_ops.c"

Ptrs == 1..MaxPtrs
Containers == 1..MaxContainers

\* No pointer was handed out, released or cleaned up yet.
FreshHeap ==
    [allocated |-> {}, released |-> [p \in Ptrs |-> 0], entries_freed |-> 0,
     cleaned |-> [c \in Containers |-> 0], registered |-> <<>>,
     last_walk |-> <<>>]

\* registered: the pointers or containers of the successful registrations
\* since the last teardown, first one first.  last_walk: what the last
\* teardown that visited an entry handed to mgen_free or to the destructor,
\* in the order of the visits.
Registered(hp, item) ==
    [hp EXCEPT !.registered = Append(@, item), !.last_walk = <<>>]

\* The teardown walk, from the head along next, visited items.
Walked(hp, items) ==
    IF items = <<>> THEN hp
    ELSE [hp EXCEPT !.registered = <<>>, !.last_walk = items]

RangeOf(seq) == {seq[i] : i \in 1..Len(seq)}

MemCall(op, ret, nomem) == Called(op, ret, 0, Uninit, nomem)

\* mgen_scope_new with malloc succeeding.
EmptyScope == [status |-> "live", head |-> <<>>, count |-> 0]

mgen_scope_new ==
    \E ok \in AllocOutcomes(TRUE) :
       IF ok
       THEN /\ scope' = EmptyScope
            /\ heap' = FreshHeap
            /\ call' = MemCall("mgen_scope_new", "ptr", FALSE)
            /\ UNCHANGED mgen_last_error
       ELSE /\ mgen_last_error' = mgen_set_error("MGEN_ERROR_MEMORY",
                                     "Failed to allocate scope allocator", MO,
                                     257, "mgen_scope_new")
            /\ call' = MemCall("mgen_scope_new", "NULL", TRUE)
            /\ UNCHANGED <<scope, heap>>

\* A registration that counts the entry before it is allocated.
RegisterResult_CountFirst(sc, ptr, ok, err) ==
    IF ~ok
    THEN [ret |-> "MGEN_ERROR_MEMORY",
          scope |-> [sc EXCEPT !.count = sc.count + 1],
          err |-> mgen_set_error("MGEN_ERROR_MEMORY",
                     "Failed to allocate scope entry", MO, 297,
                     "mgen_scope_register")]
    ELSE [ret |-> "MGEN_OK",
          scope |-> [sc EXCEPT !.head = <<ptr>> \o sc.head,
                               !.count = sc.count + 1],
          err |-> err]

\* mgen_scope_register on a non-NULL scope with a non-NULL pointer.
RegisterResult(sc, ptr, ok, err) ==
    IF ~ok
    THEN [ret |-> "MGEN_ERROR_MEMORY", scope |-> sc,
          err |-> mgen_set_error("MGEN_ERROR_MEMORY",
                     "Failed to allocate scope entry", MO, 297,
                     "mgen_scope_register")]
    ELSE [ret |-> "MGEN_OK",
          scope |-> [sc EXCEPT !.head = <<ptr>> \o sc.head,
                               !.count = sc.count + 1],
          err |-> err]

mgen_scope_register(isNull, ptrNull, ptr) ==
    IF isNull \/ ptrNull
    THEN /\ mgen_last_error' =
              IF isNull
              THEN mgen_set_error("MGEN_ERROR_VALUE", "Scope allocator is NULL",
                                  MO, 286, "mgen_scope_register")
              ELSE mgen_set_error("MGEN_ERROR_VALUE", "Pointer is NULL", MO,
                                  291, "mgen_scope_register")
         /\ call' = MemCall("mgen_scope_register", "MGEN_ERROR_VALUE", FALSE)
         /\ UNCHANGED <<scope, heap>>
    ELSE \E ok \in AllocOutcomes(TRUE) :
         LET r == RegisterResult(scope, ptr, ok, mgen_last_error)
         IN  /\ scope' = r.scope
             /\ mgen_last_error' = r.err
             /\ call' = MemCall("mgen_scope_register", r.ret, ~ok)
             /\ heap' = IF ok THEN Registered(heap, ptr) ELSE heap

\* mgen_scope_alloc: mgen_malloc, then mgen_scope_register; the block is
\* released again when the registration fails.  ptr is the block malloc
\* returns when it succeeds.
mgen_scope_alloc(isNull, size, ptr) ==
    IF isNull
    THEN /\ mgen_last_error' = mgen_set_error("MGEN_ERROR_VALUE",
                                    "Scope allocator is NULL", MO, 269,
                                    "mgen_scope_alloc")
         /\ call' = MemCall("mgen_scope_alloc", "NULL", FALSE)
         /\ UNCHANGED <<scope, heap>>
    ELSE IF size = 0
    THEN /\ mgen_last_error' = mgen_set_error("MGEN_ERROR_VALUE",
                                    "Attempted to allocate 0 bytes", MO, 34,
                                    "mgen_malloc")
         /\ call' = MemCall("mgen_scope_alloc", "NULL", FALSE)
         /\ UNCHANGED <<scope, heap>>
    ELSE \E okBlock \in AllocOutcomes(TRUE) :
         \E okEntry \in AllocOutcomes(okBlock) :
         IF ~okBlock
         THEN /\ mgen_last_error' =
                   mgen_set_error("MGEN_ERROR_MEMORY",
                       "Failed to allocate " \o ToString(size) \o " bytes",
                       MO, 40, "mgen_malloc")
              /\ call' = MemCall("mgen_scope_alloc", "NULL", TRUE)
              /\ UNCHANGED <<scope, heap>>
         ELSE LET r == RegisterResult(scope, ptr, okEntry, mgen_last_error)
              IN  /\ scope' = r.scope
                  /\ mgen_last_error' = r.err
                  /\ heap' = [(IF okEntry THEN Registered(heap, ptr)
                                ELSE heap) EXCEPT
                                !.allocated = @ \cup {ptr},
                                !.released[ptr] =
                                    IF okEntry THEN @ ELSE @ + 1]
                  /\ call' = MemCall("mgen_scope_alloc",
                                     IF okEntry THEN "ptr" ELSE "NULL",
                                     ~okEntry)

\* A walk that stops after the first entry.
FreeEntries_HeadOnly(released, entries) ==
    IF entries = <<>> THEN released
    ELSE [released EXCEPT ![Head(entries)] = @ + 1]

\* The walk of mgen_scope_free: mgen_free on the pointer of every entry.
RECURSIVE FreeEntries(_, _)
FreeEntries(released, entries) ==
    IF entries = <<>> THEN released
    ELSE FreeEntries([released EXCEPT ![Head(entries)] = @ + 1],
                     Tail(entries))

mgen_scope_free(isNull) ==
    /\ IF isNull THEN UNCHANGED <<scope, heap>>
       ELSE /\ heap' = [Walked(heap, scope.head) EXCEPT
                          !.released = FreeEntries(@, scope.head),
                          !.entries_freed = @ + Len(scope.head)]
            /\ scope' = [scope EXCEPT !.status = "freed"]
    /\ call' = MemCall("mgen_scope_free", "void", FALSE)
    /\ UNCHANGED mgen_last_error

\* mgen_refcounted_new with malloc succeeding.  destroyed counts the
\* destructor's invocations on the payload, retains and releases the calls
\* made on the cell.
NewCell(destructor) ==
    [status |-> "live", refcount |-> 1, destructor |-> destructor,
     destroyed |-> 0, retains |-> 0, releases |-> 0]

mgen_refcounted_new(destructor) ==
    \E ok \in AllocOutcomes(TRUE) :
       IF ok
       THEN /\ cell' = NewCell(destructor)
            /\ call' = MemCall("mgen_refcounted_new", "ptr", FALSE)
            /\ UNCHANGED mgen_last_error
       ELSE /\ mgen_last_error' = mgen_set_error("MGEN_ERROR_MEMORY",
                                     "Failed to allocate reference counted object",
                                     MO, 355, "mgen_refcounted_new")
            /\ call' = MemCall("mgen_refcounted_new", "NULL", TRUE)
            /\ UNCHANGED cell

\* A retain that returns the cell without "obj->refcount++".
mgen_refcounted_retain_NoCount(isNull) ==
    /\ cell' = IF isNull THEN cell ELSE [cell EXCEPT !.retains = @ + 1]
    /\ call' = MemCall("mgen_refcounted_retain",
                       IF isNull THEN "NULL" ELSE "ptr", FALSE)
    /\ UNCHANGED mgen_last_error

mgen_refcounted_retain(isNull) ==
    /\ cell' = IF isNull THEN cell
               ELSE [cell EXCEPT !.refcount = @ + 1, !.retains = @ + 1]
    /\ call' = MemCall("mgen_refcounted_retain",
                       IF isNull THEN "NULL" ELSE "ptr", FALSE)
    /\ UNCHANGED mgen_last_error

\* A release that already treats the last but one reference as the last.
NoReferenceLeft_Early(refcount) == refcount <= 1

NoReferenceLeft(refcount) == refcount <= 0

mgen_refcounted_release(isNull) ==
    /\ cell' =
         IF isNull THEN cell
         ELSE LET c == [cell EXCEPT !.refcount = @ - 1, !.releases = @ + 1]
              IN  IF NoReferenceLeft(c.refcount)
                  THEN [c EXCEPT !.destroyed =
                                     IF c.destructor THEN @ + 1 ELSE @,
                                 !.status = "freed"]
                  ELSE c
    /\ call' = MemCall("mgen_refcounted_release", "void", FALSE)
    /\ UNCHANGED mgen_last_error

mgen_refcounted_count(c) == c.refcount

(***************************************************************************)
(* Container registry (mgen_container_ops.c), mgen_strdup                  *)
(***************************************************************************)
CO == "mgen_container_ops.c"
SO == "mgen_string_ops.c"

\* mgen_container_registry_new with malloc succeeding.
EmptyRegistry == [status |-> "live", head |-> <<>>, count |-> 0]

mgen_container_registry_new ==
    \E ok \in AllocOutcomes(TRUE) :
       IF ok
       THEN /\ registry' = EmptyRegistry
            /\ heap' = FreshHeap
            /\ call' = MemCall("mgen_container_registry_new", "ptr", FALSE)
            /\ UNCHANGED mgen_last_error
       ELSE /\ mgen_last_error' = mgen_set_error("MGEN_ERROR_MEMORY",
                                     "Failed to allocate container registry",
                                     CO, 229, "mgen_container_registry_new")
            /\ call' = MemCall("mgen_container_registry_new", "NULL", TRUE)
            /\ UNCHANGED <<registry, heap>>

\* mgen_strdup of a non-NULL string: the copy, or NULL with the error set.
StrdupResult(ok, err) ==
    IF ok THEN [ret |-> "copy", err |-> err]
    ELSE [ret |-> "NULL",
          err |-> mgen_set_error("MGEN_ERROR_MEMORY",
                     "Failed to allocate memory for string", SO, 113,
                     "mgen_strdup")]

\* A registration that links the new entry behind the last one.
RegisterContainerResult_Append(reg, container, hasName, okEntry, okName, err) ==
    IF ~okEntry
    THEN [ret |-> "MGEN_ERROR_MEMORY", registry |-> reg,
          err |-> mgen_set_error("MGEN_ERROR_MEMORY",
                     "Failed to allocate container entry", CO, 256,
                     "mgen_register_container")]
    ELSE LET dup == IF hasName THEN StrdupResult(okName, err)
                    ELSE [ret |-> "NULL", err |-> err]
         IN  [ret |-> "MGEN_OK",
              registry |-> [reg EXCEPT
                              !.head = reg.head \o
                                       <<[container |-> container,
                                          name |-> dup.ret]>>,
                              !.count = reg.count + 1],
              err |-> dup.err]

\* mgen_register_container with valid parameters.  okEntry: the malloc of
\* the entry succeeds; hasName: name is not NULL; okName: the malloc made by
\* mgen_strdup succeeds.
RegisterContainerResult(reg, container, hasName, okEntry, okName, err) ==
    IF ~okEntry
    THEN [ret |-> "MGEN_ERROR_MEMORY", registry |-> reg,
          err |-> mgen_set_error("MGEN_ERROR_MEMORY",
                     "Failed to allocate container entry", CO, 256,
                     "mgen_register_container")]
    ELSE LET dup == IF hasName THEN StrdupResult(okName, err)
                    ELSE [ret |-> "NULL", err |-> err]
         IN  [ret |-> "MGEN_OK",
              registry |-> [reg EXCEPT
                              !.head = <<[container |-> container,
                                          name |-> dup.ret]>> \o reg.head,
                              !.count = reg.count + 1],
              err |-> dup.err]

\* nullArg: registry, container or cleanup_func is NULL.
mgen_register_container(nullArg, container, hasName) ==
    IF nullArg
    THEN /\ mgen_last_error' = mgen_set_error("MGEN_ERROR_VALUE",
                                    "Invalid parameters for container registration",
                                    CO, 250, "mgen_register_container")
         /\ call' = MemCall("mgen_register_container", "MGEN_ERROR_VALUE",
                            FALSE)
         /\ UNCHANGED <<registry, heap>>
    ELSE \E okEntry \in AllocOutcomes(TRUE) :
         \E okName \in AllocOutcomes(okEntry /\ hasName) :
         LET r == RegisterContainerResult(registry, container, hasName,
                                          okEntry, okName, mgen_last_error)
         IN  /\ registry' = r.registry
             /\ mgen_last_error' = r.err
             /\ call' = MemCall("mgen_register_container", r.ret,
                                ~(okEntry /\ okName))
             /\ heap' = IF okEntry THEN Registered(heap, container)
                        ELSE heap

\* The walk of mgen_cleanup_containers: cleanup_func on every container.
RECURSIVE CleanEntries(_, _)
CleanEntries(cleaned, entries) ==
    IF entries = <<>> THEN cleaned
    ELSE CleanEntries([cleaned EXCEPT ![Head(entries).container] = @ + 1],
                      Tail(entries))

\* A cleanup that walks the list and leaves head and count as they were.
CleanupResult_KeepList(reg, hp) ==
    [registry |-> reg,
     heap |-> [Walked(hp, [i \in 1..Len(reg.head) |->
                                reg.head[i].container])
                  EXCEPT !.cleaned = CleanEntries(@, reg.head),
                         !.entries_freed = @ + Len(reg.head)]]

CleanupResult(reg, hp) ==
    [registry |-> [reg EXCEPT !.head = <<>>, !.count = 0],
     heap |-> [Walked(hp, [i \in 1..Len(reg.head) |->
                                reg.head[i].container])
                  EXCEPT !.cleaned = CleanEntries(@, reg.head),
                         !.entries_freed = @ + Len(reg.head)]]

mgen_cleanup_containers(isNull) ==
    /\ IF isNull THEN UNCHANGED <<registry, heap>>
       ELSE /\ registry' = CleanupResult(registry, heap).registry
            /\ heap' = CleanupResult(registry, heap).heap
    /\ call' = MemCall("mgen_cleanup_containers", "void", FALSE)
    /\ UNCHANGED mgen_last_error

mgen_container_registry_free(isNull) ==
    /\ IF isNull THEN UNCHANGED <<registry, heap>>
       ELSE /\ registry' = [CleanupResult(registry, heap).registry
                              EXCEPT !.status = "freed"]
            /\ heap' = CleanupResult(registry, heap).heap
    /\ call' = MemCall("mgen_container_registry_free", "void", FALSE)
    /\ UNCHANGED mgen_last_error

\* Scope, cell and registry while the caller does not touch them.
MemIdle ==
    /\ scope = EmptyScope
    /\ heap = FreshHeap
    /\ cell = NewCell(FALSE)
    /\ registry = EmptyRegistry

(***************************************************************************)
(* Memory pool (mgen_memory_ops.c)                                         *)
(***************************************************************************)
\* No pool was created.  block names the storage block pool->data points to
\* (a realloc that moves the storage gives a new name and frees the old
\* block); regions are the (block, offset, len) handed out since the last
\* reset; data_freed and pool_freed count the free calls of
\* mgen_memory_pool_free.
NoPool ==
    [status |-> "none", block |-> 0, capacity |-> 0, used |-> 0, size |-> 0,
     regions |-> <<>>, data_freed |-> 0, pool_freed |-> 0]

PoolIdle == pool = NoPool

PoolCall(op, ret, nomem) == Called(op, ret, 0, Uninit, nomem)

PoolDefaultSize == 4096

mgen_memory_pool_new(initial_size) ==
    \E okPool \in AllocOutcomes(TRUE) : \E okData \in AllocOutcomes(okPool) :
       IF ~okPool
       THEN /\ mgen_last_error' = mgen_set_error("MGEN_ERROR_MEMORY",
                                      "Failed to allocate memory pool", MO, 188,
                                      "mgen_memory_pool_new")
            /\ call' = PoolCall("mgen_memory_pool_new", "NULL", TRUE)
            /\ pool' = NoPool
       ELSE IF ~okData
       THEN /\ mgen_last_error' = mgen_set_error("MGEN_ERROR_MEMORY",
                                      "Failed to allocate memory pool data", MO,
                                      195, "mgen_memory_pool_new")
            /\ call' = PoolCall("mgen_memory_pool_new", "NULL", TRUE)
            /\ pool' = NoPool
       ELSE /\ pool' = [NoPool EXCEPT
                          !.status = "live", !.block = 1,
                          !.capacity = IF initial_size = 0 THEN PoolDefaultSize
                                       ELSE initial_size]
            /\ call' = PoolCall("mgen_memory_pool_new", "ptr", FALSE)
            /\ UNCHANGED mgen_last_error

\* sizeof(void*)
PointerSize == 8

\* (size + sizeof(void*) - 1) & ~(sizeof(void*) - 1), in size_t arithmetic.
PoolAlign(size) ==
    LET s == ToSize(size + PointerSize - 1) IN s - (s % PointerSize)

\* while (new_capacity < need) new_capacity *= 2, in size_t arithmetic.  The
\* result 0 stands for the loop that does not end: new_capacity has wrapped
\* to 0 and stays below need.
RECURSIVE PoolDoubled(_, _)
PoolDoubled(new_capacity, need) ==
    IF new_capacity = 0 THEN 0
    ELSE IF new_capacity < need
         THEN PoolDoubled(ToSize(new_capacity * 2), need)
         ELSE new_capacity

\* What realloc can do when the pool grows.
ReallocOutcomes == {"fails", "in place", "moved"}

\* mgen_memory_pool_alloc on a non-NULL pool.
PoolAllocResult(p, size0, outcome, err) ==
    LET size == PoolAlign(size0)
        need == ToSize(p.used + size)
        grows == need > p.capacity
        new_capacity == PoolDoubled(ToSize(p.capacity * 2), need)
        q == IF ~grows THEN p
             ELSE [p EXCEPT !.capacity = new_capacity,
                            !.block = IF outcome = "moved" THEN @ + 1 ELSE @]
    IN  IF grows /\ new_capacity = 0
        THEN [ret |-> "never returns", pool |-> [p EXCEPT !.status = "hung"],
              err |-> err]
        ELSE IF grows /\ outcome = "fails"
        THEN [ret |-> "NULL", pool |-> p,
              err |-> mgen_set_error("MGEN_ERROR_MEMORY",
                         "Failed to grow memory pool", MO, 224,
                         "mgen_memory_pool_alloc")]
        ELSE [ret |-> "ptr",
              pool |-> [q EXCEPT
                          !.used = ToSize(q.used + size),
                          !.size = ToSize(q.size + 1),
                          !.regions = Append(@, [block |-> q.block,
                                                 offset |-> q.used,
                                                 len |-> size0])],
              err |-> err]

mgen_memory_pool_alloc(isNull, size) ==
    IF isNull
    THEN /\ mgen_last_error' = mgen_set_error("MGEN_ERROR_VALUE",
                                    "Memory pool is NULL", MO, 208,
                                    "mgen_memory_pool_alloc")
         /\ call' = PoolCall("mgen_memory_pool_alloc", "NULL", FALSE)
         /\ UNCHANGED pool
    ELSE \E outcome \in IF ToSize(pool.used + PoolAlign(size)) > pool.capacity
                        THEN ReallocOutcomes ELSE {"in place"} :
         LET r == PoolAllocResult(pool, size, outcome, mgen_last_error)
         IN  /\ pool' = r.pool
             /\ mgen_last_error' = r.err
             /\ call' = PoolCall("mgen_memory_pool_alloc", r.ret,
                                 outcome = "fails")

\* A reset that rewinds the allocation counter only.
PoolResetResult_KeepUsed(p) == [p EXCEPT !.size = 0, !.regions = <<>>]

PoolResetResult(p) == [p EXCEPT !.used = 0, !.size = 0, !.regions = <<>>]

mgen_memory_pool_reset(isNull) ==
    /\ pool' = IF isNull THEN pool ELSE PoolResetResult(pool)
    /\ call' = PoolCall("mgen_memory_pool_reset", "void", FALSE)
    /\ UNCHANGED mgen_last_error

\* free(pool->data); free(pool): nothing of the pool is left to read.
PoolFreeResult(p) ==
    [NoPool EXCEPT !.status = "freed",
                   !.data_freed = p.data_freed + 1,
                   !.pool_freed = p.pool_freed + 1]

mgen_memory_pool_free(isNull) ==
    /\ pool' = IF isNull THEN pool ELSE PoolFreeResult(pool)
    /\ call' = PoolCall("mgen_memory_pool_free", "void", FALSE)
    /\ UNCHANGED mgen_last_error

(***************************************************************************)
(* LLVM minimal runtime (backends/llvm/runtime/vec_int_minimal.c,          *)
(* map_int_int_minimal.c, set_int_minimal.c).  One container at a time:    *)
(* obj is the container, op and ret the last call and what it returned.    *)
(* exited: exit(1) was called and the process is gone; cause names the     *)
(* condition that was tested right before the exit.                        *)
(***************************************************************************)
NoMinimal ==
    [obj |-> <<>>, exited |-> FALSE, op |-> "none", ret |-> <<>>,
     cause |-> "none"]

MinimalIdle == minimal = NoMinimal

\* exit(1) inside op.
Exit(op, cause) ==
    [minimal EXCEPT !.exited = TRUE, !.op = op, !.ret = <<>>, !.cause = cause]

\* op returns; ret is <<v>> for a returned value, <<>> for void.
Returned(obj, op, ret) ==
    [obj |-> obj, exited |-> FALSE, op |-> op, ret |-> ret, cause |-> "none"]

VEC_INT_DEFAULT_CAPACITY == 8
VEC_INT_GROWTH_FACTOR == 2

\* vec_int_init with the malloc succeeding.  data holds the elements stored
\* so far (positions 0 .. size - 1 of the block).
minimal_vec_int_init ==
    [data |-> <<>>, size |-> 0, capacity |-> VEC_INT_DEFAULT_CAPACITY]

\* vec_int_grow with the realloc succeeding.
minimal_vec_int_grow(v) ==
    [v EXCEPT !.capacity = IF v.capacity = 0 THEN VEC_INT_DEFAULT_CAPACITY
                           ELSE v.capacity * VEC_INT_GROWTH_FACTOR]

minimal_vec_int_init_ptr(outNull) ==
    \E ok \in AllocOutcomes(~outNull) :
       /\ minimal' = IF outNull
                     THEN Exit("vec_int_init_ptr", "NULL argument")
                     ELSE IF ~ok
                     THEN Exit("vec_int_init_ptr", "allocation failure")
                     ELSE Returned(minimal_vec_int_init, "vec_int_init_ptr",
                                   <<>>)
       /\ UNCHANGED notMinimal

minimal_vec_int_push(isNull, value) ==
    LET v == minimal.obj
        grows == ~isNull /\ v.size >= v.capacity
    IN  \E ok \in AllocOutcomes(grows) :
           /\ minimal' =
                 IF isNull THEN Exit("vec_int_push", "NULL argument")
                 ELSE IF grows /\ ~ok
                 THEN Exit("vec_int_push", "allocation failure")
                 ELSE LET g == IF grows THEN minimal_vec_int_grow(v) ELSE v
                      IN  Returned([g EXCEPT !.data = Append(@, value),
                                             !.size = @ + 1],
                                   "vec_int_push", <<>>)
           /\ UNCHANGED notMinimal

minimal_vec_int_at(isNull, index) ==
    /\ minimal' = IF isNull THEN Exit("vec_int_at", "NULL argument")
                  ELSE IF index >= minimal.obj.size
                  THEN Exit("vec_int_at", "index out of range")
                  ELSE Returned(minimal.obj, "vec_int_at",
                                <<minimal.obj.data[index + 1]>>)
    /\ UNCHANGED notMinimal

\* vec_int_free: nothing happens on NULL or when data is NULL.
minimal_vec_int_free(isNull) ==
    /\ minimal' = Returned(IF isNull \/ minimal.obj.capacity = 0
                           THEN minimal.obj
                           ELSE [data |-> <<>>, size |-> 0, capacity |-> 0],
                           "vec_int_free", <<>>)
    /\ UNCHANGED notMinimal

MAP_DEFAULT_CAPACITY == 16
MAP_GROWTH_FACTOR == 2

\* The low 16 bits of 2654435761 (0x9E3779B1).
KnuthMultiplierLow == 31153

\* hash_int(key) % capacity.  The product is taken modulo 2^64 and every
\* capacity is 16 * 2^n, so the remainder depends on the low bits only.
minimal_hash_int(key, capacity) ==
    ((key % capacity) * (KnuthMultiplierLow % capacity)) % capacity

\* calloc'ed entries.
EmptyEntries(n) == [i \in 1..n |-> [key |-> 0, value |-> 0, is_occupied |-> 0]]

\* find_entry from probe i on: the position (from 1) of the first entry that
\* is free or holds key, 0 for NULL.
RECURSIVE find_entry_from(_, _, _, _, _)
find_entry_from(entries, capacity, key, index, i) ==
    IF i >= capacity THEN 0
    ELSE LET probe_index == (index + i) % capacity
             entry == entries[probe_index + 1]
         IN  IF entry.is_occupied = 0 \/ entry.key = key
             THEN probe_index + 1
             ELSE find_entry_from(entries, capacity, key, index, i + 1)

find_entry(entries, capacity, key) ==
    find_entry_from(entries, capacity, key, minimal_hash_int(key, capacity), 0)

\* The rehash loop of map_int_int_grow from old entry i on.
RECURSIVE Rehash(_, _, _, _)
Rehash(old, new_entries, new_capacity, i) ==
    IF i > Len(old) THEN new_entries
    ELSE IF old[i].is_occupied = 0
    THEN Rehash(old, new_entries, new_capacity, i + 1)
    ELSE LET slot == find_entry(new_entries, new_capacity, old[i].key)
         IN  Rehash(old,
                    IF slot = 0 THEN new_entries
                    ELSE [new_entries EXCEPT
                            ![slot] = [key |-> old[i].key,
                                       value |-> old[i].value,
                                       is_occupied |-> 1]],
                    new_capacity, i + 1)

\* A growth that doubles the table without carrying the entries over.
minimal_map_int_int_grow_NoRehash(m) ==
    LET new_capacity == IF m.capacity = 0 THEN MAP_DEFAULT_CAPACITY
                        ELSE m.capacity * MAP_GROWTH_FACTOR
    IN  [m EXCEPT !.entries = EmptyEntries(new_capacity),
                  !.capacity = new_capacity]

\* map_int_int_grow with the calloc succeeding.
minimal_map_int_int_grow(m) ==
    LET new_capacity == IF m.capacity = 0 THEN MAP_DEFAULT_CAPACITY
                        ELSE m.capacity * MAP_GROWTH_FACTOR
    IN  [m EXCEPT !.entries = Rehash(m.entries, EmptyEntries(new_capacity),
                                     new_capacity, 1),
                  !.capacity = new_capacity]

\* map_int_int_init with the calloc succeeding.
minimal_map_int_int_init ==
    [entries |-> EmptyEntries(MAP_DEFAULT_CAPACITY), size |-> 0,
     capacity |-> MAP_DEFAULT_CAPACITY]

minimal_map_int_int_init_ptr(outNull) ==
    \E ok \in AllocOutcomes(~outNull) :
       /\ minimal' = IF outNull
                     THEN Exit("map_int_int_init_ptr", "NULL argument")
                     ELSE IF ~ok
                     THEN Exit("map_int_int_init_ptr", "allocation failure")
                     ELSE Returned(minimal_map_int_int_init,
                                   "map_int_int_init_ptr", <<>>)
       /\ UNCHANGED notMinimal

\* (double)(size + 1) / capacity > 0.75; the quotient is +infinity when
\* capacity is 0.
OverLoadFactor(m) == m.capacity = 0 \/ 4 * (m.size + 1) > 3 * m.capacity

minimal_map_int_int_set(isNull, key, value) ==
    LET m == minimal.obj
        grows == ~isNull /\ OverLoadFactor(m)
    IN  \E ok \in AllocOutcomes(grows) :
           /\ minimal' =
                 IF isNull THEN Exit("map_int_int_set", "NULL argument")
                 ELSE IF grows /\ ~ok
                 THEN Exit("map_int_int_set", "allocation failure")
                 ELSE LET g == IF grows THEN minimal_map_int_int_grow(m) ELSE m
                          slot == find_entry(g.entries, g.capacity, key)
                      IN  IF slot = 0
                          THEN Exit("map_int_int_set", "map is full")
                          ELSE Returned(
                                 [g EXCEPT
                                    !.entries[slot] = [key |-> key,
                                                       value |-> value,
                                                       is_occupied |-> 1],
                                    !.size = IF g.entries[slot].is_occupied = 0
                                             THEN @ + 1 ELSE @],
                                 "map_int_int_set", <<>>)
           /\ UNCHANGED notMinimal

\* What map_int_int_get returns for a non-NULL map: 0 for an empty block or
\* a missing key.
MinimalGetResult(m, key) ==
    LET slot == find_entry(m.entries, m.capacity, key)
    IN  IF m.capacity = 0 THEN 0
        ELSE IF slot = 0 THEN 0
        ELSE IF m.entries[slot].is_occupied = 0 THEN 0
        ELSE m.entries[slot].value

minimal_map_int_int_get(isNull, key) ==
    /\ minimal' = [minimal EXCEPT
                     !.op = "map_int_int_get",
                     !.ret = IF isNull THEN <<0>>
                             ELSE <<MinimalGetResult(minimal.obj, key)>>]
    /\ UNCHANGED notMinimal

\* What map_int_int_contains returns for a non-NULL map.
minimal_map_int_int_contains(m, key) ==
    LET slot == find_entry(m.entries, m.capacity, key)
    IN  IF m.capacity = 0 THEN 0
        ELSE IF slot # 0 /\ m.entries[slot].is_occupied # 0 THEN 1
        ELSE 0

minimal_map_int_int_free(isNull) ==
    /\ minimal' = Returned(IF isNull \/ minimal.obj.capacity = 0
                           THEN minimal.obj
                           ELSE [entries |-> <<>>, size |-> 0, capacity |-> 0],
                           "map_int_int_free", <<>>)
    /\ UNCHANGED notMinimal

SET_INT_DEFAULT_BUCKET_COUNT == 16

minimal_set_int_hash(value, bucket_count) ==
    (IF value < 0 THEN -value ELSE value) % bucket_count

\* set_int_init with the calloc succeeding.  buckets is <<>> when NULL.
minimal_set_int_init ==
    [buckets |-> EmptyBuckets(SET_INT_DEFAULT_BUCKET_COUNT),
     bucket_count |-> SET_INT_DEFAULT_BUCKET_COUNT, size |-> 0]

minimal_set_int_init_ptr(outNull) ==
    \E ok \in AllocOutcomes(~outNull) :
       /\ minimal' = IF outNull
                     THEN Exit("set_int_init_ptr", "NULL argument")
                     ELSE IF ~ok
                     THEN Exit("set_int_init_ptr", "allocation failure")
                     ELSE Returned(minimal_set_int_init, "set_int_init_ptr",
                                   <<>>)
       /\ UNCHANGED notMinimal

\* value is one of the entries of the chain.
InChain(chain, value) == \E i \in 1..Len(chain) : chain[i] = value

\* okBuckets: the calloc of the lazy initialization succeeds; okEntry: the
\* malloc of set_int_entry_new succeeds.  Returns 1 for true, 0 for false.
minimal_set_int_insert(isNull, value) ==
    LET s == minimal.obj
        lazy == ~isNull /\ s.buckets = <<>>
    IN  \E okBuckets \in AllocOutcomes(lazy) :
        LET t == IF lazy
                 THEN [s EXCEPT
                         !.bucket_count = SET_INT_DEFAULT_BUCKET_COUNT,
                         !.buckets =
                             EmptyBuckets(SET_INT_DEFAULT_BUCKET_COUNT)]
                 ELSE s
            index == minimal_set_int_hash(value, t.bucket_count)
            present == ~isNull /\ okBuckets
                       /\ InChain(t.buckets[index + 1], value)
        IN  \E okEntry \in AllocOutcomes(~isNull /\ okBuckets /\ ~present) :
               /\ minimal' =
                     IF isNull THEN Exit("set_int_insert", "NULL argument")
                     ELSE IF ~okBuckets
                     THEN Exit("set_int_insert", "allocation failure")
                     ELSE IF present
                     THEN Returned(t, "set_int_insert", <<0>>)
                     ELSE IF ~okEntry
                     THEN Exit("set_int_insert", "allocation failure")
                     ELSE Returned([t EXCEPT
                                      !.buckets[index + 1] = <<value>> \o @,
                                      !.size = @ + 1],
                                   "set_int_insert", <<1>>)
               /\ UNCHANGED notMinimal

minimal_set_int_contains(isNull, value) ==
    LET s == minimal.obj
    IN  /\ minimal' = [minimal EXCEPT
                         !.op = "set_int_contains",
                         !.ret = IF isNull \/ s.buckets = <<>> THEN <<0>>
                                 ELSE IF InChain(s.buckets[
                                            minimal_set_int_hash(value,
                                                s.bucket_count) + 1], value)
                                 THEN <<1>> ELSE <<0>>]
        /\ UNCHANGED notMinimal

minimal_set_int_drop(isNull) ==
    /\ minimal' = Returned(IF isNull THEN minimal.obj
                           ELSE [buckets |-> <<>>, bucket_count |-> 0,
                                 size |-> 0],
                           "set_int_drop", <<>>)
    /\ UNCHANGED notMinimal

(***************************************************************************)
(* Lookups as calls, and the strict lookup adapters (mgen_stc_bridge.c,    *)
(* mgen_container_ops.c), which reach the table through callbacks          *)
(***************************************************************************)
SB == "mgen_stc_bridge.c"

\* A call of a get function (got: what it returns, <<v>> or <<>>) or of a
\* contains function; neither has a statement that touches the error context.
GetCall(op, got) ==
    /\ call' = Called(op, IF got = <<>> THEN "NULL" ELSE "ptr", 0,
                      IF got = <<>> THEN Uninit ELSE got[1], FALSE)
    /\ UNCHANGED mgen_last_error

ContainsCall(op, found) ==
    /\ call' = Called(op, IF found THEN "true" ELSE "false", 0, Uninit, FALSE)
    /\ UNCHANGED mgen_last_error

\* mgen_map_get_safe_impl with valid parameters.  found: what contains_func
\* returns; got: what get_func returns.
MapGetSafeResult(found, got, err) ==
    IF ~found
    THEN [ret |-> <<>>,
          err |-> mgen_set_error("MGEN_ERROR_KEY", "Key not found in map", SB,
                     206, "mgen_map_get_safe_impl")]
    ELSE [ret |-> got, err |-> err]

\* nullArg: map_ptr, key, get_func or contains_func is NULL.
mgen_map_get_safe_impl(nullArg, found, got) ==
    IF nullArg
    THEN /\ mgen_last_error' = mgen_set_error("MGEN_ERROR_VALUE",
                                    "Invalid map parameters", SB, 201,
                                    "mgen_map_get_safe_impl")
         /\ call' = Called("mgen_map_get_safe_impl", "NULL", 0, Uninit, FALSE)
    ELSE LET r == MapGetSafeResult(found, got, mgen_last_error)
         IN  /\ mgen_last_error' = r.err
             /\ call' = Called("mgen_map_get_safe_impl",
                               IF r.ret = <<>> THEN "NULL" ELSE "ptr", 0,
                               IF r.ret = <<>> THEN Uninit ELSE r.ret[1], FALSE)

\* A strict lookup that reports the missing key through NULL alone.
HmapGetSafeResult_Silent(got, err) == [ret |-> got, err |-> err]

\* mgen_hmap_get_safe with valid parameters.  got: what get_func returns.
HmapGetSafeResult(got, err) ==
    IF got = <<>>
    THEN [ret |-> <<>>,
          err |-> mgen_set_error("MGEN_ERROR_KEY",
                     "Key '%s' not found in hashmap", CO, 108,
                     "mgen_hmap_get_safe")]
    ELSE [ret |-> got, err |-> err]

\* nullArg: hmap_ptr, key or get_func is NULL.
mgen_hmap_get_safe(nullArg, got) ==
    IF nullArg
    THEN /\ mgen_last_error' = mgen_set_error("MGEN_ERROR_VALUE",
                                    "Invalid hashmap or get function", CO, 102,
                                    "mgen_hmap_get_safe")
         /\ call' = Called("mgen_hmap_get_safe", "NULL", 0, Uninit, FALSE)
    ELSE LET r == HmapGetSafeResult(got, mgen_last_error)
         IN  /\ mgen_last_error' = r.err
             /\ call' = Called("mgen_hmap_get_safe",
                               IF r.ret = <<>> THEN "NULL" ELSE "ptr", 0,
                               IF r.ret = <<>> THEN Uninit ELSE r.ret[1], FALSE)

(***************************************************************************)
(* Index adapters (mgen_stc_bridge.c).  size_t is wider than int: int is   *)
(* kept at 16 bits here, size_t at 30 bits (SizeModulus).                  *)
(***************************************************************************)
IntModulus == 2 ^ 16
INT_MAX == (IntModulus \div 2) - 1
INT_MIN == -(IntModulus \div 2)

\* (int)v for a value that need not fit: the low bits, as on every
\* two's complement build.
ToInt(v) ==
    LET m == v % IntModulus
    IN  IF m > INT_MAX THEN m - IntModulus ELSE m

\* What a + b can yield in int arithmetic: the sum when it fits, otherwise
\* (signed overflow, undefined) the wrapped sum or either end of the range.
IntSum(a, b) ==
    IF a + b >= INT_MIN /\ a + b <= INT_MAX THEN {a + b}
    ELSE {ToInt(a + b), INT_MIN, INT_MAX}

\* mgen_normalize_index; sum is what index + (int)size yielded.
NormalizeIndexResult(index0, size, sum, err) ==
    LET index == IF index0 < 0 THEN sum ELSE index0
    IN  IF index < 0 \/ index >= ToInt(size)
        THEN [ret |-> -1,
              err |-> mgen_set_error("MGEN_ERROR_INDEX",
                         "Index %d out of range [0, %zu)", SB, 168,
                         "mgen_normalize_index")]
        ELSE [ret |-> index, err |-> err]

mgen_normalize_index(index, size) ==
    \E sum \in IntSum(index, ToInt(size)) :
       LET r == NormalizeIndexResult(index, size, sum, mgen_last_error)
       IN  /\ indexed' = [op |-> "mgen_normalize_index", index |-> index,
                          size |-> size, ret |-> r.ret, at |-> <<>>]
           /\ mgen_last_error' = r.err

\* nullArg: vec_ptr, size_func or at_func is NULL.  size is what size_func
\* returns for the vector.
mgen_vec_at_safe_impl(nullArg, index, size) ==
    IF nullArg
    THEN /\ indexed' = [op |-> "mgen_vec_at_safe_impl", index |-> index,
                        size |-> size, ret |-> 0, at |-> <<>>]
         /\ mgen_last_error' = mgen_set_error("MGEN_ERROR_VALUE",
                                    "Invalid vector parameters", SB, 181,
                                    "mgen_vec_at_safe_impl")
    ELSE \E sum \in IntSum(index, ToInt(size)) :
         LET r == NormalizeIndexResult(index, size, sum, mgen_last_error)
         IN  /\ indexed' = [op |-> "mgen_vec_at_safe_impl", index |-> index,
                            size |-> size, ret |-> r.ret,
                            at |-> IF r.ret < 0 THEN <<>>
                                   ELSE <<ToSize(r.ret)>>]
             /\ mgen_last_error' = r.err

(***************************************************************************)
(* Typed vector (mgen_vec_int.c; mgen_vec_double.c, mgen_vec_float.c and   *)
(* mgen_vec_vec_int.c repeat it for their element types)                   *)
(***************************************************************************)
VI == "mgen_vec_int.c"

DEFAULT_CAPACITY == 8
GROWTH_FACTOR == 2

\* The zero-valued vec_int: NULL data, size 0, capacity 0.
VecZero == [data |-> <<>>, size |-> 0, capacity |-> 0]

\* The values appended since construction, in order; valid until some other
\* operation changes the sequence.
NothingPushed == [valid |-> TRUE, seq |-> <<>>]
Tainted == [valid |-> FALSE, seq |-> <<>>]
Push(p, v) == IF p.valid THEN [p EXCEPT !.seq = Append(@, v)] ELSE p

\* No store went outside the block; released is the number of blocks the
\* last call handed to free.
VecHeapClean == [oob_write |-> FALSE, released |-> 0]

VecCall(op, ret, out, nomem) == Called(op, ret, 0, out, nomem)

\* vec_int_init: the vector and the error context it leaves.
VecInitResult(ok, err) ==
    IF ok
    THEN [vec |-> [data |-> FreshBlock(DEFAULT_CAPACITY), size |-> 0,
                   capacity |-> DEFAULT_CAPACITY],
          err |-> err]
    ELSE [vec |-> VecZero,
          err |-> mgen_set_error("MGEN_ERROR_MEMORY",
                     "Failed to allocate vector", VI, 20, "vec_int_init")]

VecGrowCapacity(capacity) ==
    IF capacity = 0 THEN DEFAULT_CAPACITY ELSE capacity * GROWTH_FACTOR

\* vec_int_grow
VecGrowResult(v, ok, err) ==
    IF ~ok
    THEN [vec |-> v,
          err |-> mgen_set_error("MGEN_ERROR_MEMORY", "Failed to grow vector",
                     VI, 31, "vec_int_grow")]
    ELSE [vec |-> [v EXCEPT
                     !.data = Realloc(v.data, VecGrowCapacity(v.capacity)),
                     !.capacity = VecGrowCapacity(v.capacity)],
          err |-> err]

\* vec_int_push on a non-NULL vector: grow when full, then store at
\* data[size] and count the element, whatever vec_int_grow did.
VecPushResult(v0, value, ok, err, oob) ==
    LET g == IF v0.size >= v0.capacity THEN VecGrowResult(v0, ok, err)
             ELSE [vec |-> v0, err |-> err]
        v == g.vec
    IN  [vec |-> [v EXCEPT !.data = Store(v.data, v.size, value),
                           !.size = v.size + 1],
         err |-> g.err,
         oob |-> oob \/ v.size >= Len(v.data)]

vec_int_push(isNull, value) ==
    IF isNull
    THEN /\ mgen_last_error' = mgen_set_error("MGEN_ERROR_VALUE", "NULL vector",
                                    VI, 40, "vec_int_push")
         /\ call' = VecCall("vec_int_push", "void", Uninit, FALSE)
         /\ vec_heap' = [vec_heap EXCEPT !.released = 0]
         /\ UNCHANGED vec
    ELSE \E ok \in AllocOutcomes(vec.size >= vec.capacity) :
         LET r == VecPushResult(vec, value, ok, mgen_last_error,
                                vec_heap.oob_write)
         IN  /\ vec' = r.vec
             /\ mgen_last_error' = r.err
             /\ vec_heap' = [oob_write |-> r.oob, released |-> 0]
             /\ call' = VecCall("vec_int_push", "void", Uninit, ~ok)

\* vec_int_at: the element behind the returned pointer is recorded.
vec_int_at(isNull, index) ==
    /\ IF isNull
       THEN /\ mgen_last_error' = mgen_set_error("MGEN_ERROR_VALUE",
                                       "NULL vector", VI, 53, "vec_int_at")
            /\ call' = VecCall("vec_int_at", "NULL", Uninit, FALSE)
       ELSE IF index >= vec.size
       THEN /\ mgen_last_error' = mgen_set_error("MGEN_ERROR_INDEX",
                                       "Index out of bounds", VI, 58,
                                       "vec_int_at")
            /\ call' = VecCall("vec_int_at", "NULL", Uninit, FALSE)
       ELSE /\ \E out \in ReadAt(vec.data, index) :
                  call' = VecCall("vec_int_at", "ptr", out, FALSE)
            /\ UNCHANGED mgen_last_error
    /\ vec_heap' = [vec_heap EXCEPT !.released = 0]
    /\ UNCHANGED vec

vec_int_size(v) == v.size
vec_int_capacity(v) == v.capacity

vec_int_pop(isNull) ==
    /\ IF isNull \/ vec.size = 0
       THEN /\ mgen_last_error' = mgen_set_error("MGEN_ERROR_VALUE",
                                       "Empty or NULL vector", VI, 75,
                                       "vec_int_pop")
            /\ UNCHANGED vec
       ELSE /\ vec' = [vec EXCEPT !.size = @ - 1]
            /\ UNCHANGED mgen_last_error
    /\ call' = VecCall("vec_int_pop", "void", Uninit, FALSE)
    /\ vec_heap' = [vec_heap EXCEPT !.released = 0]

vec_int_clear(isNull) ==
    /\ vec' = IF isNull THEN vec ELSE [vec EXCEPT !.size = 0]
    /\ call' = VecCall("vec_int_clear", "void", Uninit, FALSE)
    /\ vec_heap' = [vec_heap EXCEPT !.released = 0]
    /\ UNCHANGED mgen_last_error

\* free(ptr) releases a block unless ptr is NULL.
Released(data) == IF data = <<>> THEN 0 ELSE 1

vec_int_drop(isNull) ==
    /\ vec' = IF isNull THEN vec ELSE VecZero
    /\ vec_heap' = [vec_heap EXCEPT
                      !.released = IF isNull THEN 0 ELSE Released(vec.data)]
    /\ call' = VecCall("vec_int_drop", "void", Uninit, FALSE)
    /\ UNCHANGED mgen_last_error

vec_int_reserve(isNull, new_capacity) ==
    /\ IF isNull
       THEN /\ mgen_last_error' = mgen_set_error("MGEN_ERROR_VALUE",
                                       "NULL vector", VI, 103,
                                       "vec_int_reserve")
            /\ call' = VecCall("vec_int_reserve", "void", Uninit, FALSE)
            /\ UNCHANGED vec
       ELSE IF new_capacity <= vec.capacity
       THEN /\ call' = VecCall("vec_int_reserve", "void", Uninit, FALSE)
            /\ UNCHANGED <<vec, mgen_last_error>>
       ELSE \E ok \in AllocOutcomes(TRUE) :
            IF ~ok
            THEN /\ mgen_last_error' = mgen_set_error("MGEN_ERROR_MEMORY",
                                            "Failed to reserve capacity", VI,
                                            113, "vec_int_reserve")
                 /\ call' = VecCall("vec_int_reserve", "void", Uninit, TRUE)
                 /\ UNCHANGED vec
            ELSE /\ vec' = [vec EXCEPT !.data = Realloc(@, new_capacity),
                                       !.capacity = new_capacity]
                 /\ call' = VecCall("vec_int_reserve", "void", Uninit, FALSE)
                 /\ UNCHANGED mgen_last_error
    /\ vec_heap' = [vec_heap EXCEPT !.released = 0]

\* The vector while the caller does not touch it.
VecIdle == vec = VecZero /\ vec_heap = VecHeapClean

\* The tables while the caller does not touch them.
TablesEmpty ==
    /\ map = MapZero
    /\ set = SetZero
    /\ strmap = mgen_str_int_map_new_with_capacity(DEFAULT_BUCKET_COUNT)
    /\ live = {}

\* The caller works on none of the tables, scope, cell or registry.
TabIdle == driven = "none" /\ TablesEmpty

(***************************************************************************)
(* The dynamic array driven by an arbitrary caller.  A call with a NULL     *)
(* array or element reads none of its other arguments.                      *)
(***************************************************************************)
InitCaps == {0, 1, 2}

Indices == 0..MaxSize

InitArr ==
    /\ mgen_last_error = NoError
    /\ \E initial_capacity \in InitCaps :
          array = mgen_dyn_array_new(initial_capacity)
    /\ oob_write = FALSE
    /\ call = Called("mgen_dyn_array_new", "ptr", 0, Uninit, FALSE)
    /\ TabIdle
    /\ SliceIdle
    /\ MemIdle
    /\ VecIdle
    /\ pushed = NothingPushed
    /\ PoolIdle
    /\ MinimalIdle
    /\ LateIdle

ArrAppend ==
    /\ array.size < MaxSize
    /\ \/ mgen_dyn_array_append(TRUE, FALSE, 1) /\ pushed' = pushed
       \/ mgen_dyn_array_append(FALSE, TRUE, 1) /\ pushed' = pushed
       \/ \E element \in Values :
             /\ mgen_dyn_array_append(FALSE, FALSE, element)
             /\ pushed' = IF call'.ret = "MGEN_OK" THEN Push(pushed, element)
                          ELSE pushed
    /\ UNCHANGED notArr

ArrInsert ==
    /\ array.size < MaxSize
    /\ \/ mgen_dyn_array_insert(TRUE, 0, FALSE, 1)
       \/ mgen_dyn_array_insert(FALSE, 0, TRUE, 1)
       \/ \E index \in Indices, element \in Values :
             mgen_dyn_array_insert(FALSE, index, FALSE, element)
    /\ pushed' = IF array' = array THEN pushed ELSE Tainted
    /\ UNCHANGED notArr

ArrRemove ==
    /\ \/ mgen_dyn_array_remove(TRUE, 0)
       \/ \E index \in Indices : mgen_dyn_array_remove(FALSE, index)
    /\ pushed' = IF array' = array THEN pushed ELSE Tainted
    /\ UNCHANGED notArr

ArrGet ==
    /\ \/ mgen_dyn_array_get(TRUE, 0)
       \/ \E index \in Indices : mgen_dyn_array_get(FALSE, index)
    /\ UNCHANGED <<pushed, notArr>>

ArrSet ==
    /\ \/ mgen_dyn_array_set(TRUE, 0, FALSE, 1)
       \/ mgen_dyn_array_set(FALSE, 0, TRUE, 1)
       \/ \E index \in Indices, element \in Values :
             mgen_dyn_array_set(FALSE, index, FALSE, element)
    /\ pushed' = IF array' = array THEN pushed ELSE Tainted
    /\ UNCHANGED notArr

ArrReserve ==
    /\ \/ mgen_dyn_array_reserve(TRUE, 0)
       \/ \E new_capacity \in 0..MaxReserve :
             mgen_dyn_array_reserve(FALSE, new_capacity)
    /\ UNCHANGED <<pushed, notArr>>

ArrClear ==
    /\ \E isNull \in BOOLEAN : mgen_dyn_array_clear(isNull)
    /\ pushed' = IF array' = array THEN pushed ELSE Tainted
    /\ UNCHANGED notArr

ArrShrink ==
    /\ \E isNull \in BOOLEAN : mgen_dyn_array_shrink_to_fit(isNull)
    /\ UNCHANGED <<pushed, notArr>>

ArrPopBack ==
    /\ \E isNull \in BOOLEAN : mgen_dyn_array_pop_back(isNull)
    /\ pushed' = IF array' = array THEN pushed ELSE Tainted
    /\ UNCHANGED notArr

NextArr ==
    \/ ArrAppend
    \/ ArrInsert
    \/ ArrRemove
    \/ ArrGet
    \/ ArrSet
    \/ ArrReserve
    \/ ArrClear
    \/ ArrShrink
    \/ ArrPopBack
    \/ mgen_clear_error

SpecArr == InitArr /\ [][NextArr]_vars

(***************************************************************************)
(* One hash table driven by an arbitrary caller.  The table is either the  *)
(* result of its init function or, for map_int_int and set_int, zero-valued.*)
(***************************************************************************)
InitTab ==
    /\ mgen_last_error = NoError
    /\ call = TabCall("init", "void", FALSE)
    /\ driven \in {"map_int_int", "set_int", "mgen_str_int_map"}
    /\ map \in IF driven = "map_int_int" THEN {map_int_int_init, MapZero}
               ELSE {MapZero}
    /\ set \in IF driven = "set_int" THEN {set_int_init, SetZero} ELSE {SetZero}
    /\ strmap \in IF driven = "mgen_str_int_map"
                  THEN {mgen_str_int_map_new_with_capacity(c) : c \in StrCaps}
                  ELSE {mgen_str_int_map_new_with_capacity(DEFAULT_BUCKET_COUNT)}
    /\ live = {}
    /\ array = mgen_dyn_array_new(0)
    /\ oob_write = FALSE
    /\ SliceIdle
    /\ MemIdle
    /\ VecIdle
    /\ pushed = NothingPushed
    /\ PoolIdle
    /\ MinimalIdle
    /\ LateIdle

MapInsert ==
    /\ driven = "map_int_int"
    /\ \/ map_int_int_insert(TRUE, 1, 10)
       \/ \E key \in IntKeys, value \in Vals :
             map_int_int_insert(FALSE, key, value)
    /\ UNCHANGED <<driven, set, strmap, notTab>>

MapRemove ==
    /\ driven = "map_int_int"
    /\ \/ map_int_int_remove(TRUE, 1)
       \/ \E key \in IntKeys : map_int_int_remove(FALSE, key)
    /\ UNCHANGED <<driven, set, strmap, notTab>>

MapClear ==
    /\ driven = "map_int_int"
    /\ \E isNull \in BOOLEAN : map_int_int_clear(isNull)
    /\ UNCHANGED <<driven, set, strmap, notTab>>

MapDrop ==
    /\ driven = "map_int_int"
    /\ \E isNull \in BOOLEAN : map_int_int_drop(isNull)
    /\ UNCHANGED <<driven, set, strmap, notTab>>

SetInsert ==
    /\ driven = "set_int"
    /\ \/ set_int_insert(TRUE, 1)
       \/ \E value \in IntKeys : set_int_insert(FALSE, value)
    /\ UNCHANGED <<driven, map, strmap, notTab>>

SetRemove ==
    /\ driven = "set_int"
    /\ \/ set_int_remove(TRUE, 1)
       \/ \E value \in IntKeys : set_int_remove(FALSE, value)
    /\ UNCHANGED <<driven, map, strmap, notTab>>

SetClear ==
    /\ driven = "set_int"
    /\ \E isNull \in BOOLEAN : set_int_clear(isNull)
    /\ UNCHANGED <<driven, map, strmap, notTab>>

SetDrop ==
    /\ driven = "set_int"
    /\ \E isNull \in BOOLEAN : set_int_drop(isNull)
    /\ UNCHANGED <<driven, map, strmap, notTab>>

\* A freed mgen_str_int_map_t is not passed to any function again.
StrInsert ==
    /\ driven = "mgen_str_int_map" /\ ~strmap.freed
    /\ \/ mgen_str_int_map_insert(TRUE, <<97>>, 10)
       \/ \E key \in StrKeys, value \in Vals :
             mgen_str_int_map_insert(FALSE, key, value)
    /\ UNCHANGED <<driven, map, set, notTab>>

StrRemove ==
    /\ driven = "mgen_str_int_map" /\ ~strmap.freed
    /\ \/ mgen_str_int_map_remove(TRUE, <<97>>)
       \/ \E key \in StrKeys : mgen_str_int_map_remove(FALSE, key)
    /\ UNCHANGED <<driven, map, set, notTab>>

StrClear ==
    /\ driven = "mgen_str_int_map" /\ ~strmap.freed
    /\ \E isNull \in BOOLEAN : mgen_str_int_map_clear(isNull)
    /\ UNCHANGED <<driven, map, set, notTab>>

StrFree ==
    /\ driven = "mgen_str_int_map" /\ ~strmap.freed
    /\ \E isNull \in BOOLEAN : mgen_str_int_map_free(isNull)
    /\ UNCHANGED <<driven, map, set, notTab>>

\* Lookups on the driven map, directly and through the strict adapters with
\* the map's own get and contains functions as callbacks.
LookupKeys == IF driven = "map_int_int" THEN IntKeys ELSE StrKeys

Found(key) ==
    IF driven = "map_int_int" THEN map_int_int_contains(map, key)
    ELSE mgen_str_int_map_contains(strmap, key)

Got(key) ==
    IF driven = "map_int_int" THEN map_int_int_get(map, key)
    ELSE mgen_str_int_map_get(strmap, key)

IsMap ==
    \/ driven = "map_int_int"
    \/ driven = "mgen_str_int_map" /\ ~strmap.freed

GetName ==
    IF driven = "map_int_int" THEN "map_int_int_get" ELSE "mgen_str_int_map_get"

ContainsName ==
    IF driven = "map_int_int" THEN "map_int_int_contains"
    ELSE "mgen_str_int_map_contains"

TabGet ==
    /\ IsMap
    /\ \/ GetCall(GetName, <<>>)
       \/ \E key \in LookupKeys : GetCall(GetName, Got(key))
    /\ UNCHANGED <<tabVars, notTab>>

TabContains ==
    /\ IsMap
    /\ \/ ContainsCall(ContainsName, FALSE)
       \/ \E key \in LookupKeys : ContainsCall(ContainsName, Found(key))
    /\ UNCHANGED <<tabVars, notTab>>

TabGetSafe ==
    /\ IsMap
    /\ \/ mgen_map_get_safe_impl(TRUE, FALSE, <<>>)
       \/ \E key \in LookupKeys :
             mgen_map_get_safe_impl(FALSE, Found(key), Got(key))
    /\ UNCHANGED <<tabVars, notTab>>

TabHmapGetSafe ==
    /\ IsMap
    /\ \/ mgen_hmap_get_safe(TRUE, <<>>)
       \/ \E key \in LookupKeys : mgen_hmap_get_safe(FALSE, Got(key))
    /\ UNCHANGED <<tabVars, notTab>>

ClearErrorTab == driven # "none" /\ mgen_clear_error

NextTab ==
    \/ MapInsert
    \/ MapRemove
    \/ MapClear
    \/ MapDrop
    \/ SetInsert
    \/ SetRemove
    \/ SetClear
    \/ SetDrop
    \/ StrInsert
    \/ StrRemove
    \/ StrClear
    \/ StrFree
    \/ ClearErrorTab

SpecTab == InitTab /\ [][NextTab]_vars

\* The maps under a caller that inserts, removes and looks keys up, and
\* that reads and clears the error context after a call that failed before
\* it makes the next call.
InitLookup == InitTab /\ driven \in {"map_int_int", "mgen_str_int_map"}

LookupUpdate ==
    /\ ~mgen_has_error
    /\ (MapInsert \/ MapRemove \/ StrInsert \/ StrRemove)

LookupGet == ~mgen_has_error /\ TabGet

LookupContains == ~mgen_has_error /\ TabContains

LookupGetSafe == ~mgen_has_error /\ TabGetSafe

LookupHmapGetSafe == ~mgen_has_error /\ TabHmapGetSafe

LookupClearError == mgen_has_error /\ ClearErrorTab

NextLookup ==
    \/ LookupUpdate
    \/ LookupGet
    \/ LookupContains
    \/ LookupGetSafe
    \/ LookupHmapGetSafe
    \/ LookupClearError

SpecLookup == InitLookup /\ [][NextLookup]_vars

(***************************************************************************)
(* The slice normalizer applied to an arbitrary descriptor and length.  A  *)
(* field of the descriptor that is marked absent holds the value           *)
(* mgen_slice_new gives it.                                                *)
(***************************************************************************)
SliceInts == (-MaxSliceInt)..MaxSliceInt
Steps == (-MaxStep)..MaxStep

Descriptors ==
    {Slice(IF hs THEN a ELSE 0, IF hp THEN b ELSE 0, IF ht THEN c ELSE 1,
           hs, hp, ht) :
        hs \in BOOLEAN, hp \in BOOLEAN, ht \in BOOLEAN,
        a \in SliceInts, b \in SliceInts, c \in Steps}

InitSlice ==
    /\ mgen_last_error = NoError
    /\ call = Called("mgen_slice_new", "slice", 0, Uninit, FALSE)
    /\ \E slice \in Descriptors, seq_len \in 0..MaxSeqLen :
          norm = [slice |-> slice, seq_len |-> seq_len, result |-> NoResult,
                  ret |-> "none", null |-> FALSE]
    /\ array = mgen_dyn_array_new(0)
    /\ oob_write = FALSE
    /\ TabIdle
    /\ MemIdle
    /\ VecIdle
    /\ pushed = NothingPushed
    /\ PoolIdle
    /\ MinimalIdle
    /\ LateIdle

SliceNormalize ==
    /\ norm.ret = "none"
    /\ \E nullArg \in BOOLEAN : mgen_normalize_python_slice(nullArg)
    /\ UNCHANGED notSlice

ClearErrorSlice == norm.ret # "none" /\ mgen_has_error /\ mgen_clear_error

NextSlice == SliceNormalize \/ ClearErrorSlice

SpecSlice == InitSlice /\ [][NextSlice]_vars

(***************************************************************************)
(* A scope, a reference counted cell or a registry driven by an arbitrary  *)
(* caller.  An object that was freed is not passed to any function again;  *)
(* the caller then creates a new one.  A container that was cleaned up is  *)
(* not registered again.                                                   *)
(***************************************************************************)
AllocSizes == {0, 8}

InitMem ==
    /\ mgen_last_error = NoError
    /\ call = MemCall("init", "void", FALSE)
    /\ driven \in {"scope", "refcounted", "registry"}
    /\ scope = EmptyScope
    /\ heap = FreshHeap
    /\ cell \in IF driven = "refcounted" THEN {NewCell(d) : d \in BOOLEAN}
                ELSE {NewCell(FALSE)}
    /\ registry = EmptyRegistry
    /\ TablesEmpty
    /\ SliceIdle
    /\ VecIdle
    /\ pushed = NothingPushed
    /\ PoolIdle
    /\ MinimalIdle
    /\ LateIdle
    /\ array = mgen_dyn_array_new(0)
    /\ oob_write = FALSE

ScopeNew ==
    /\ driven = "scope" /\ scope.status = "freed"
    /\ mgen_scope_new
    /\ UNCHANGED <<cell, registry, notMem>>

\* malloc returns a block that is not in use and was not in use before.
ScopeAlloc ==
    /\ driven = "scope" /\ scope.status = "live"
    /\ Len(scope.head) < MaxEntries
    /\ \/ mgen_scope_alloc(TRUE, 8, 1)
       \/ \E size \in AllocSizes :
          \E ptr \in {p \in Ptrs : /\ p \notin heap.allocated
                                   /\ p \notin RangeOf(scope.head)
                                   /\ heap.released[p] = 0} :
             mgen_scope_alloc(FALSE, size, ptr)
    /\ UNCHANGED <<cell, registry, notMem>>

\* The caller registers a pointer to a block that was not released.
ScopeRegister ==
    /\ driven = "scope" /\ scope.status = "live"
    /\ Len(scope.head) < MaxEntries
    /\ \/ mgen_scope_register(TRUE, FALSE, 1)
       \/ mgen_scope_register(FALSE, TRUE, 1)
       \/ \E ptr \in {p \in Ptrs : heap.released[p] = 0} :
             mgen_scope_register(FALSE, FALSE, ptr)
    /\ UNCHANGED <<cell, registry, notMem>>

ScopeFree ==
    /\ driven = "scope" /\ scope.status = "live"
    /\ \E isNull \in BOOLEAN : mgen_scope_free(isNull)
    /\ UNCHANGED <<cell, registry, notMem>>

RefNew ==
    /\ driven = "refcounted" /\ cell.status = "freed"
    /\ \E destructor \in BOOLEAN : mgen_refcounted_new(destructor)
    /\ UNCHANGED <<scope, heap, registry, notMem>>

RefRetain ==
    /\ driven = "refcounted" /\ cell.status = "live"
    /\ cell.retains < MaxRetain
    /\ \E isNull \in BOOLEAN : mgen_refcounted_retain(isNull)
    /\ UNCHANGED <<scope, heap, registry, notMem>>

RefRelease ==
    /\ driven = "refcounted" /\ cell.status = "live"
    /\ \E isNull \in BOOLEAN : mgen_refcounted_release(isNull)
    /\ UNCHANGED <<scope, heap, registry, notMem>>

RegNew ==
    /\ driven = "registry" /\ registry.status = "freed"
    /\ mgen_container_registry_new
    /\ UNCHANGED <<scope, cell, notMem>>

RegRegister ==
    /\ driven = "registry" /\ registry.status = "live"
    /\ Len(registry.head) < MaxRegistered
    /\ \/ mgen_register_container(TRUE, 1, FALSE)
       \/ \E container \in {c \in Containers : heap.cleaned[c] = 0},
             hasName \in BOOLEAN :
             mgen_register_container(FALSE, container, hasName)
    /\ UNCHANGED <<scope, cell, notMem>>

RegCleanup ==
    /\ driven = "registry" /\ registry.status = "live"
    /\ \E isNull \in BOOLEAN : mgen_cleanup_containers(isNull)
    /\ UNCHANGED <<scope, cell, notMem>>

RegFree ==
    /\ driven = "registry" /\ registry.status = "live"
    /\ \E isNull \in BOOLEAN : mgen_container_registry_free(isNull)
    /\ UNCHANGED <<scope, cell, notMem>>

ClearErrorMem ==
    /\ driven \in {"scope", "refcounted", "registry"}
    /\ mgen_clear_error

NextMem ==
    \/ ScopeNew
    \/ ScopeAlloc
    \/ ScopeRegister
    \/ ScopeFree
    \/ RefNew
    \/ RefRetain
    \/ RefRelease
    \/ RegNew
    \/ RegRegister
    \/ RegCleanup
    \/ RegFree
    \/ ClearErrorMem

SpecMem == InitMem /\ [][NextMem]_vars

(***************************************************************************)
(* A vec_int driven by an arbitrary caller, from vec_int_init (which may   *)
(* have failed and left the vector zero-valued).                           *)
(***************************************************************************)
InitVec ==
    /\ \E ok \in BOOLEAN :
          /\ vec = VecInitResult(ok, NoError).vec
          /\ mgen_last_error = VecInitResult(ok, NoError).err
          /\ call = VecCall("vec_int_init", "vec", Uninit, ~ok)
    /\ vec_heap = VecHeapClean
    /\ pushed = NothingPushed
    /\ PoolIdle
    /\ MinimalIdle
    /\ LateIdle
    /\ array = mgen_dyn_array_new(0)
    /\ oob_write = FALSE
    /\ driven = "vec_int"
    /\ TablesEmpty
    /\ SliceIdle
    /\ MemIdle

\* A push during which the allocation failed is not counted as a push.
VecPush ==
    /\ driven = "vec_int"
    /\ vec.size < MaxVecSize
    /\ \/ vec_int_push(TRUE, 1) /\ pushed' = pushed
       \/ \E value \in Values :
             /\ vec_int_push(FALSE, value)
             /\ pushed' = IF call'.nomem THEN pushed ELSE Push(pushed, value)
    /\ UNCHANGED notVec

VecAt ==
    /\ driven = "vec_int"
    /\ \/ vec_int_at(TRUE, 0)
       \/ \E index \in 0..MaxVecSize : vec_int_at(FALSE, index)
    /\ UNCHANGED <<pushed, notVec>>

VecPop ==
    /\ driven = "vec_int"
    /\ \E isNull \in BOOLEAN : vec_int_pop(isNull)
    /\ pushed' = IF vec' = vec THEN pushed ELSE Tainted
    /\ UNCHANGED notVec

VecClear ==
    /\ driven = "vec_int"
    /\ \E isNull \in BOOLEAN : vec_int_clear(isNull)
    /\ pushed' = IF vec' = vec THEN pushed ELSE Tainted
    /\ UNCHANGED notVec

VecDrop ==
    /\ driven = "vec_int"
    /\ \E isNull \in BOOLEAN : vec_int_drop(isNull)
    /\ pushed' = IF vec' = vec THEN pushed ELSE Tainted
    /\ UNCHANGED notVec

VecReserve ==
    /\ driven = "vec_int"
    /\ \/ vec_int_reserve(TRUE, 0)
       \/ \E new_capacity \in 0..MaxVecReserve :
             vec_int_reserve(FALSE, new_capacity)
    /\ UNCHANGED <<pushed, notVec>>

ClearErrorVec == driven = "vec_int" /\ mgen_has_error /\ mgen_clear_error

NextVec ==
    \/ VecPush
    \/ VecAt
    \/ VecPop
    \/ VecClear
    \/ VecDrop
    \/ VecReserve
    \/ ClearErrorVec

SpecVec == InitVec /\ [][NextVec]_vars

(***************************************************************************)
(* A memory pool driven by an arbitrary caller.  A pool that was freed, or *)
(* whose allocation never returned, is not passed to any function again.   *)
(***************************************************************************)
PoolInitialSizes == {0, 8, 16}

\* Requested sizes, among them one close to the largest size_t.
PoolSizes == {0, 1, 8, 9, SizeModulus - 8}

InitPool ==
    /\ mgen_last_error = NoError
    /\ call = PoolCall("init", "void", FALSE)
    /\ driven = "pool"
    /\ pool = NoPool
    /\ MinimalIdle
    /\ LateIdle
    /\ TablesEmpty
    /\ SliceIdle
    /\ MemIdle
    /\ VecIdle
    /\ pushed = NothingPushed
    /\ array = mgen_dyn_array_new(0)
    /\ oob_write = FALSE

PoolNew ==
    /\ driven = "pool" /\ pool.status \in {"none", "freed"}
    /\ \E initial_size \in PoolInitialSizes : mgen_memory_pool_new(initial_size)
    /\ UNCHANGED notPool

PoolAlloc ==
    /\ driven = "pool" /\ pool.status = "live"
    /\ pool.size < MaxPoolAllocs
    /\ \/ mgen_memory_pool_alloc(TRUE, 8)
       \/ \E size \in PoolSizes : mgen_memory_pool_alloc(FALSE, size)
    /\ UNCHANGED notPool

PoolReset ==
    /\ driven = "pool" /\ pool.status = "live"
    /\ \E isNull \in BOOLEAN : mgen_memory_pool_reset(isNull)
    /\ UNCHANGED notPool

PoolFree ==
    /\ driven = "pool" /\ pool.status = "live"
    /\ \E isNull \in BOOLEAN : mgen_memory_pool_free(isNull)
    /\ UNCHANGED notPool

ClearErrorPool ==
    /\ driven = "pool" /\ pool.status # "hung"
    /\ mgen_has_error /\ mgen_clear_error

NextPool ==
    \/ PoolNew
    \/ PoolAlloc
    \/ PoolReset
    \/ PoolFree
    \/ ClearErrorPool

SpecPool == InitPool /\ [][NextPool]_vars

(***************************************************************************)
(* A program generated for the LLVM backend: it initializes one container, *)
(* then calls its operations; nothing runs after exit(1).                  *)
(***************************************************************************)
MinimalKinds == {"minimal vec_int", "minimal map_int_int", "minimal set_int"}
MinimalValues == {5, 6}
MinimalIndexes == {0, 1, MaxMinimalSize}
MinimalMembers == {1, -1, 17}

InitMinimal ==
    /\ mgen_last_error = NoError
    /\ call = PoolCall("init", "void", FALSE)
    /\ driven \in MinimalKinds
    /\ pool = NoPool
    /\ MinimalIdle
    /\ LateIdle
    /\ TablesEmpty
    /\ SliceIdle
    /\ MemIdle
    /\ VecIdle
    /\ pushed = NothingPushed
    /\ array = mgen_dyn_array_new(0)
    /\ oob_write = FALSE

MinimalRunning(kind) ==
    driven = kind /\ ~minimal.exited /\ minimal.op # "none"

MinimalInit ==
    /\ minimal.op = "none"
    /\ \E outNull \in BOOLEAN :
          \/ driven = "minimal vec_int" /\ minimal_vec_int_init_ptr(outNull)
          \/ driven = "minimal map_int_int"
             /\ minimal_map_int_int_init_ptr(outNull)
          \/ driven = "minimal set_int" /\ minimal_set_int_init_ptr(outNull)

MinimalVecPush ==
    /\ MinimalRunning("minimal vec_int")
    /\ minimal.obj.size < MaxMinimalSize
    /\ \/ minimal_vec_int_push(TRUE, 5)
       \/ \E value \in MinimalValues : minimal_vec_int_push(FALSE, value)

MinimalVecAt ==
    /\ MinimalRunning("minimal vec_int")
    /\ \/ minimal_vec_int_at(TRUE, 0)
       \/ \E index \in MinimalIndexes : minimal_vec_int_at(FALSE, index)

MinimalVecFree ==
    /\ MinimalRunning("minimal vec_int")
    /\ \E isNull \in BOOLEAN : minimal_vec_int_free(isNull)

\* New keys are taken in ascending order; 1 and 17 share the first probe
\* position of a 16-entry block.
MinimalMapSet ==
    /\ MinimalRunning("minimal map_int_int")
    /\ minimal.obj.size < MaxMinimalEntries
    /\ \/ minimal_map_int_int_set(TRUE, 1, 10)
       \/ \E key \in {1, 17, minimal.obj.size + 1} :
          \E value \in (IF key = 1 THEN {10, 11} ELSE {10}) :
             minimal_map_int_int_set(FALSE, key, value)

MinimalMapGet ==
    /\ MinimalRunning("minimal map_int_int")
    /\ \/ minimal_map_int_int_get(TRUE, 1)
       \/ \E key \in {1, 17, minimal.obj.size + 1} :
             minimal_map_int_int_get(FALSE, key)

MinimalMapFree ==
    /\ MinimalRunning("minimal map_int_int")
    /\ \E isNull \in BOOLEAN : minimal_map_int_int_free(isNull)

MinimalSetInsert ==
    /\ MinimalRunning("minimal set_int")
    /\ \/ minimal_set_int_insert(TRUE, 1)
       \/ \E value \in MinimalMembers : minimal_set_int_insert(FALSE, value)

MinimalSetContains ==
    /\ MinimalRunning("minimal set_int")
    /\ \/ minimal_set_int_contains(TRUE, 1)
       \/ \E value \in MinimalMembers : minimal_set_int_contains(FALSE, value)

MinimalSetDrop ==
    /\ MinimalRunning("minimal set_int")
    /\ \E isNull \in BOOLEAN : minimal_set_int_drop(isNull)

NextMinimal ==
    \/ MinimalInit
    \/ MinimalVecPush
    \/ MinimalVecAt
    \/ MinimalVecFree
    \/ MinimalMapSet
    \/ MinimalMapGet
    \/ MinimalMapFree
    \/ MinimalSetInsert
    \/ MinimalSetContains
    \/ MinimalSetDrop

SpecMinimal == InitMinimal /\ [][NextMinimal]_vars

(***************************************************************************)
(* A caller of the index adapters, for containers of any size.             *)
(***************************************************************************)
IndexInts == {INT_MIN, -4, -3, -1, 0, 1, 2, 3, INT_MAX}
IndexSizes == {0, 1, 3, INT_MAX, INT_MAX + 1, IntModulus + 2}

InitIndex ==
    /\ mgen_last_error = NoError
    /\ call = PoolCall("init", "void", FALSE)
    /\ driven = "index"
    /\ pool = NoPool
    /\ MinimalIdle
    /\ LateIdle
    /\ TablesEmpty
    /\ SliceIdle
    /\ MemIdle
    /\ VecIdle
    /\ pushed = NothingPushed
    /\ array = mgen_dyn_array_new(0)
    /\ oob_write = FALSE

IndexNormalize ==
    /\ driven = "index"
    /\ \E index \in IndexInts, size \in IndexSizes :
          mgen_normalize_index(index, size)
    /\ UNCHANGED <<call, notIndex>>

IndexVecAtSafe ==
    /\ driven = "index"
    /\ \/ mgen_vec_at_safe_impl(TRUE, 0, 0)
       \/ \E index \in IndexInts, size \in IndexSizes :
             mgen_vec_at_safe_impl(FALSE, index, size)
    /\ UNCHANGED <<call, notIndex>>

ClearErrorIndex ==
    /\ driven = "index" /\ mgen_has_error
    /\ mgen_last_error' = NoError
    /\ UNCHANGED <<call, indexVars, notIndex>>

NextIndex == IndexNormalize \/ IndexVecAtSafe \/ ClearErrorIndex

SpecIndex == InitIndex /\ [][NextIndex]_vars

(***************************************************************************)
(* The set_int iterator (mgen_set_int.c).  current_entry is the position   *)
(* of the entry in the chain of bucket bucket_index (0 for NULL), ref is   *)
(* <<>> for NULL and <<v>> when it points at a stored v.  yielded records  *)
(* the values ref pointed at since set_int_begin, in order.                *)
(***************************************************************************)
\* The first non-empty bucket at index i or later, bucket_count when none.
RECURSIVE FirstBucketFrom(_, _)
FirstBucketFrom(s, i) ==
    IF i >= s.bucket_count THEN s.bucket_count
    ELSE IF s.buckets[i + 1] # <<>> THEN i
    ELSE FirstBucketFrom(s, i + 1)

\* The iterator placed on entry e of bucket b.
IterAt(it, s, b, e) ==
    [it EXCEPT !.bucket_index = b, !.current_entry = e,
               !.ref = <<s.buckets[b + 1][e].value>>]

\* The iterator set_int_begin returns.
IterBegin(isNull, s) ==
    LET it == [NoIter EXCEPT !.status = "iterating",
                             !.set = IF isNull THEN "NULL" ELSE "set"]
        b == FirstBucketFrom(s, 0)
    IN  IF isNull \/ s.buckets = <<>> \/ s.size = 0 \/ b = s.bucket_count
        THEN it
        ELSE IterAt(it, s, b, 1)

\* An advance that goes to the next bucket without following the chain.
IterAdvance_SkipChain(it, s) ==
    IF it.set = "NULL" \/ it.current_entry = 0
    THEN [it EXCEPT !.ref = <<>>]
    ELSE LET b == FirstBucketFrom(s, it.bucket_index + 1)
         IN  IF b < s.bucket_count
             THEN IterAt(it, s, b, 1)
             ELSE [it EXCEPT !.current_entry = 0, !.ref = <<>>]

\* set_int_next on a non-NULL iterator over the set s.
IterAdvance(it, s) ==
    IF it.set = "NULL" \/ it.current_entry = 0
    THEN [it EXCEPT !.ref = <<>>]
    ELSE IF it.current_entry < Len(s.buckets[it.bucket_index + 1])
    THEN IterAt(it, s, it.bucket_index, it.current_entry + 1)
    ELSE LET b == FirstBucketFrom(s, it.bucket_index + 1)
         IN  IF b < s.bucket_count
             THEN IterAt(it, s, b, 1)
             ELSE [it EXCEPT !.current_entry = 0, !.ref = <<>>]

set_int_begin(isNull) ==
    LET it == IterBegin(isNull, set)
    IN  /\ iter' = [it EXCEPT !.yielded = it.ref]
        /\ call' = TabCall("set_int_begin", "iter", FALSE)

set_int_next(isNull) ==
    /\ iter' = IF isNull THEN iter
               ELSE LET it == IterAdvance(iter, set)
                    IN  [it EXCEPT !.yielded = iter.yielded \o it.ref]
    /\ call' = TabCall("set_int_next", "void", FALSE)

(***************************************************************************)
(* A caller that fills a set_int and then iterates over it: the set is not *)
(* changed once an iterator was made, and a new iteration begins only when *)
(* the one before it came to its end.  The caller keeps calling            *)
(* set_int_next on its iterator.                                           *)
(***************************************************************************)
InitIter == InitTab /\ driven = "set_int"

IterUpdate ==
    /\ iter.status = "none"
    /\ (SetInsert \/ SetRemove \/ SetClear \/ SetDrop)

IterStart ==
    /\ driven = "set_int"
    /\ iter.status = "none" \/ iter.ref = <<>>
    /\ \E isNull \in BOOLEAN : set_int_begin(isNull)
    /\ UNCHANGED <<mgen_last_error, tabVars, notIter>>

IterNext ==
    /\ driven = "set_int"
    /\ iter.status = "iterating"
    /\ set_int_next(FALSE)
    /\ UNCHANGED <<mgen_last_error, tabVars, notIter>>

IterNextNull ==
    /\ driven = "set_int"
    /\ iter.status = "iterating"
    /\ set_int_next(TRUE)
    /\ UNCHANGED <<mgen_last_error, tabVars, notIter>>

NextIter == IterUpdate \/ IterStart \/ IterNext \/ IterNextNull

SpecIter == InitIter /\ [][NextIter]_vars /\ WF_vars(IterNext)

(***************************************************************************)
(* Memory tracking (mgen_memory_ops.c).  stats holds                       *)
(* memory_tracking_enabled and the fields of memory_stats; blocks records  *)
(* the blocks that mgen_malloc and mgen_calloc returned and mgen_free has  *)
(* not released, each with whether it was counted when it was allocated    *)
(* (tracking was enabled then, and was not enabled anew since).            *)
(***************************************************************************)
Blocks == 1..MaxBlocks

LiveBlocks(st) == {b.ptr : b \in st.blocks}

TrackedBlocks(st) == {b.ptr : b \in {c \in st.blocks : c.tracked}}

\* The block malloc or calloc returns: one that is not live.
NewBlock(st) == CHOOSE p \in Blocks \ LiveBlocks(st) :
                    \A q \in Blocks \ LiveBlocks(st) : p <= q

\* The bookkeeping of mgen_malloc and mgen_calloc after the block p of size
\* bytes was obtained.
StatsAllocated(st, size, p) ==
    LET current == (st.current_allocated + size) % SizeModulus
    IN  IF st.enabled
        THEN [st EXCEPT
                !.total_allocated = (@ + size) % SizeModulus,
                !.current_allocated = current,
                !.allocation_count = (@ + 1) % SizeModulus,
                !.peak_allocated = IF current > @ THEN current ELSE @,
                !.blocks = @ \cup {[ptr |-> p, tracked |-> TRUE]}]
        ELSE [st EXCEPT !.blocks = @ \cup {[ptr |-> p, tracked |-> FALSE]}]

mgen_malloc(size) ==
    IF size = 0
    THEN /\ mgen_last_error' = mgen_set_error("MGEN_ERROR_VALUE",
                                    "Attempted to allocate 0 bytes", MO, 34,
                                    "mgen_malloc")
         /\ call' = MemCall("mgen_malloc", "NULL", FALSE)
         /\ UNCHANGED stats
    ELSE \E ok \in AllocOutcomes(TRUE) :
         IF ~ok
         THEN /\ mgen_last_error' = mgen_set_error("MGEN_ERROR_MEMORY",
                                         "Failed to allocate %zu bytes", MO, 40,
                                         "mgen_malloc")
              /\ call' = MemCall("mgen_malloc", "NULL", TRUE)
              /\ UNCHANGED stats
         ELSE /\ stats' = StatsAllocated(stats, size, NewBlock(stats))
              /\ call' = MemCall("mgen_malloc", NewBlock(stats), FALSE)
              /\ UNCHANGED mgen_last_error

mgen_calloc(count, size) ==
    IF count = 0 \/ size = 0
    THEN /\ mgen_last_error' = mgen_set_error("MGEN_ERROR_VALUE",
                                    "Attempted to allocate 0 elements or 0 bytes",
                                    MO, 76, "mgen_calloc")
         /\ call' = MemCall("mgen_calloc", "NULL", FALSE)
         /\ UNCHANGED stats
    ELSE IF count > (SizeModulus - 1) \div size
    THEN /\ mgen_last_error' = mgen_set_error("MGEN_ERROR_VALUE",
                                    "Integer overflow in calloc", MO, 82,
                                    "mgen_calloc")
         /\ call' = MemCall("mgen_calloc", "NULL", FALSE)
         /\ UNCHANGED stats
    ELSE \E ok \in AllocOutcomes(TRUE) :
         IF ~ok
         THEN /\ mgen_last_error' = mgen_set_error("MGEN_ERROR_MEMORY",
                                         "Failed to allocate %zu elements of %zu bytes",
                                         MO, 88, "mgen_calloc")
              /\ call' = MemCall("mgen_calloc", "NULL", TRUE)
              /\ UNCHANGED stats
         ELSE /\ stats' = StatsAllocated(stats, count * size, NewBlock(stats))
              /\ call' = MemCall("mgen_calloc", NewBlock(stats), FALSE)
              /\ UNCHANGED mgen_last_error

\* mgen_free(&p): isNull stands for a NULL argument or a NULL *ptr.
mgen_free(isNull, p) ==
    /\ stats' = IF isNull THEN stats
                ELSE [stats EXCEPT
                        !.free_count = IF stats.enabled
                                       THEN (@ + 1) % SizeModulus ELSE @,
                        !.blocks = {b \in @ : b.ptr # p}]
    /\ call' = MemCall("mgen_free", "void", FALSE)
    /\ UNCHANGED mgen_last_error

\* Blocks that are live when the statistics are zeroed are not counted.
mgen_memory_tracking_enable ==
    /\ stats' = [NoStats EXCEPT
                   !.enabled = TRUE,
                   !.blocks = {[ptr |-> b.ptr, tracked |-> FALSE] :
                                  b \in stats.blocks}]
    /\ call' = MemCall("mgen_memory_tracking_enable", "void", FALSE)
    /\ UNCHANGED mgen_last_error

\* What mgen_check_memory_leaks returns.
mgen_check_memory_leaks == IF stats.current_allocated > 0 THEN 1 ELSE 0

(***************************************************************************)
(* A caller that enables tracking, allocates blocks, releases blocks it    *)
(* holds (each once: mgen_free sets the caller's pointer to NULL) and asks *)
(* for leaks.                                                              *)
(***************************************************************************)
MallocSizes == {0, 1, 2}
CallocArgs == {<<0, 1>>, <<1, 0>>, <<1, 1>>, <<2, 1>>, <<SizeModulus \div 2, 4>>}

InitStats ==
    /\ mgen_last_error = NoError
    /\ call = MemCall("init", "void", FALSE)
    /\ driven = "stats"
    /\ pool = NoPool
    /\ MinimalIdle
    /\ LateIdle
    /\ TablesEmpty
    /\ SliceIdle
    /\ MemIdle
    /\ VecIdle
    /\ pushed = NothingPushed
    /\ array = mgen_dyn_array_new(0)
    /\ oob_write = FALSE

StatsRoom ==
    /\ driven = "stats"
    /\ Cardinality(stats.blocks) < MaxBlocks
    /\ stats.allocation_count < MaxTracked

StatsEnable ==
    /\ driven = "stats"
    /\ mgen_memory_tracking_enable
    /\ UNCHANGED <<indexVars, iterVars, rangeVars, earlyVars>>

StatsMalloc ==
    /\ StatsRoom
    /\ \E size \in MallocSizes : mgen_malloc(size)
    /\ UNCHANGED <<indexVars, iterVars, rangeVars, earlyVars>>

StatsCalloc ==
    /\ StatsRoom
    /\ \E args \in CallocArgs : mgen_calloc(args[1], args[2])
    /\ UNCHANGED <<indexVars, iterVars, rangeVars, earlyVars>>

StatsFree ==
    /\ driven = "stats"
    /\ \/ mgen_free(TRUE, 1)
       \/ \E p \in LiveBlocks(stats) : mgen_free(FALSE, p)
    /\ UNCHANGED <<indexVars, iterVars, rangeVars, earlyVars>>

StatsCheckLeaks ==
    /\ driven = "stats"
    /\ call' = MemCall("mgen_check_memory_leaks", mgen_check_memory_leaks, FALSE)
    /\ UNCHANGED <<mgen_last_error, stats, indexVars, iterVars, rangeVars,
                   earlyVars>>

ClearErrorStats ==
    /\ driven = "stats" /\ mgen_has_error
    /\ mgen_last_error' = NoError
    /\ UNCHANGED <<call, stats, indexVars, iterVars, rangeVars, earlyVars>>

NextStats ==
    \/ StatsEnable
    \/ StatsMalloc
    \/ StatsCalloc
    \/ StatsFree
    \/ StatsCheckLeaks
    \/ ClearErrorStats

SpecStats == InitStats /\ [][NextStats]_vars

(***************************************************************************)
(* Python's range (mgen_python_ops.c).  range holds the mgen_range_t the   *)
(* caller made, the values mgen_range_next returned for it in order, and   *)
(* mgen_current_exception as mgen_raise_exception left it.                 *)
(***************************************************************************)
mgen_raise_exception(type, message) == [type |-> type, message |-> message]

mgen_range_full(start, stop, step) ==
    /\ range' = [status |-> "made", start |-> start, stop |-> stop,
                 step |-> step, current |-> start, yielded |-> <<>>,
                 mgen_current_exception |->
                    IF step = 0
                    THEN mgen_raise_exception("MGEN_ERROR_VALUE",
                                              "range() arg 3 must not be zero")
                    ELSE range.mgen_current_exception]
    /\ call' = PoolCall("mgen_range_full", "range", FALSE)

\* mgen_range_has_next on a non-NULL range.
mgen_range_has_next(r) ==
    IF r.step > 0
    THEN (IF r.current < r.stop THEN 1 ELSE 0)
    ELSE (IF r.current > r.stop THEN 1 ELSE 0)

mgen_range_next(isNull) ==
    IF isNull \/ mgen_range_has_next(range) = 0
    THEN /\ call' = PoolCall("mgen_range_next", 0, FALSE)
         /\ UNCHANGED range
    ELSE /\ range' = [range EXCEPT !.current = @ + range.step,
                                   !.yielded = Append(@, range.current)]
         /\ call' = PoolCall("mgen_range_next", range.current, FALSE)

(***************************************************************************)
(* A caller that makes a range and runs the loop                           *)
(*    while (mgen_range_has_next(&r)) mgen_range_next(&r);                 *)
(* to its end before it makes the next range.                              *)
(***************************************************************************)
RangeInts == (-MaxRangeInt)..MaxRangeInt
RangeSteps == (-MaxRangeStep)..MaxRangeStep

InitRange ==
    /\ mgen_last_error = NoError
    /\ call = PoolCall("init", "void", FALSE)
    /\ driven = "range"
    /\ pool = NoPool
    /\ MinimalIdle
    /\ LateIdle
    /\ TablesEmpty
    /\ SliceIdle
    /\ MemIdle
    /\ VecIdle
    /\ pushed = NothingPushed
    /\ array = mgen_dyn_array_new(0)
    /\ oob_write = FALSE

RangeMake ==
    /\ driven = "range"
    /\ range.status = "none" \/ mgen_range_has_next(range) = 0
    /\ \E start \in RangeInts, stop \in RangeInts, step \in RangeSteps :
          mgen_range_full(start, stop, step)
    /\ UNCHANGED <<mgen_last_error, notRange>>

\* One turn of the loop.
RangeLoop ==
    /\ driven = "range" /\ range.status = "made"
    /\ mgen_range_has_next(range) = 1
    /\ Len(range.yielded) < MaxYielded
    /\ mgen_range_next(FALSE)
    /\ UNCHANGED <<mgen_last_error, notRange>>

\* mgen_range_next after the loop, or with a NULL range.
RangeNextAfter ==
    /\ driven = "range" /\ range.status = "made"
    /\ \/ mgen_range_has_next(range) = 0 /\ mgen_range_next(FALSE)
       \/ mgen_range_next(TRUE)
    /\ UNCHANGED <<mgen_last_error, notRange>>

NextRange == RangeMake \/ RangeLoop \/ RangeNextAfter

SpecRange == InitRange /\ [][NextRange]_vars /\ WF_vars(RangeLoop)

(***************************************************************************)
(* The containers that have a drop function (vec_int, map_int_int,         *)
(* set_int), each driven through its own calls.                            *)
(***************************************************************************)
InitDrop ==
    \/ InitVec
    \/ InitTab /\ driven \in {"map_int_int", "set_int"}

NextDrop ==
    \/ VecPush
    \/ VecAt
    \/ VecPop
    \/ VecClear
    \/ VecDrop
    \/ VecReserve
    \/ MapInsert
    \/ MapRemove
    \/ MapClear
    \/ MapDrop
    \/ SetInsert
    \/ SetRemove
    \/ SetClear
    \/ SetDrop
    \/ ClearErrorTab

SpecDrop == InitDrop /\ [][NextDrop]_vars

(***************************************************************************)
(* Properties of the dynamic array                                         *)
(***************************************************************************)

\* C1: in every state reachable from mgen_dyn_array_new by append, insert,
\* remove, set, pop_back, clear, reserve and shrink_to_fit, 0 <= size <=
\* capacity and no element was written at a position >= capacity.
C1_SizeWithinCapacity ==
    /\ 0 <= array.size
    /\ array.size <= array.capacity
    /\ ~oob_write

\* C9: get, set and remove with index >= size and insert with index > size
\* fail with IndexError (get returns NULL, the others MGEN_ERROR_INDEX, the
\* error context code is Index) and leave the array unchanged; insert at
\* index = size does what append of the same element does.
C9_IndexContract ==
    [][ /\ \A index \in Indices :
            /\ (index >= array.size /\ mgen_dyn_array_get(FALSE, index))
                 => /\ call'.ret = "NULL"
                    /\ mgen_last_error'.code = "MGEN_ERROR_INDEX"
                    /\ UNCHANGED arrVars
            /\ (index >= array.size /\ mgen_dyn_array_remove(FALSE, index))
                 => /\ call'.ret = "MGEN_ERROR_INDEX"
                    /\ mgen_last_error'.code = "MGEN_ERROR_INDEX"
                    /\ UNCHANGED arrVars
            /\ \A element \in Values :
                 /\ (index >= array.size
                      /\ mgen_dyn_array_set(FALSE, index, FALSE, element))
                      => /\ call'.ret = "MGEN_ERROR_INDEX"
                         /\ mgen_last_error'.code = "MGEN_ERROR_INDEX"
                         /\ UNCHANGED arrVars
                 /\ (index > array.size
                      /\ mgen_dyn_array_insert(FALSE, index, FALSE, element))
                      => /\ call'.ret = "MGEN_ERROR_INDEX"
                         /\ mgen_last_error'.code = "MGEN_ERROR_INDEX"
                         /\ UNCHANGED arrVars
                 /\ (index = array.size
                      /\ mgen_dyn_array_insert(FALSE, index, FALSE, element))
                      => \E ok \in BOOLEAN :
                           LET r == AppendResult(array, element, ok,
                                                 mgen_last_error, oob_write)
                           IN  /\ call'.ret = r.ret
                               /\ array' = r.array
                               /\ mgen_last_error' = r.err
                               /\ oob_write' = r.oob
      ]_vars

\* C10: when the reallocation fails, append, insert and reserve return
\* MGEN_ERROR_MEMORY, record MemoryError in the error context and leave
\* size, capacity and every stored element unchanged.
C10_ReallocFailureKeepsArray ==
    [][ (/\ call'.op \in {"mgen_dyn_array_append", "mgen_dyn_array_insert",
                          "mgen_dyn_array_reserve"}
         /\ call'.nomem)
        => /\ call'.ret = "MGEN_ERROR_MEMORY"
           /\ mgen_last_error'.code = "MGEN_ERROR_MEMORY"
           /\ array' = array
           /\ oob_write' = oob_write
      ]_vars

\* A reallocation failed during an append on a full array that holds
\* elements.
C10_Witness ==
    /\ call.op = "mgen_dyn_array_append"
    /\ call.nomem
    /\ array.size = array.capacity
    /\ array.size > 0

(***************************************************************************)
(* Properties of the hash tables                                           *)
(***************************************************************************)

\* C2: for map_int_int and set_int, after any sequence of insert, remove,
\* clear and drop calls, contains(k) is true exactly for the keys whose insert
\* went through (its allocations succeeded) and that were not removed, cleared
\* or dropped since, and size() is the number of keys for which contains is
\* true.
C2_ContainsExactlyLive ==
    /\ driven = "map_int_int" =>
          /\ \A k \in IntKeys : map_int_int_contains(map, k) <=> k \in live
          /\ map_int_int_size(map)
               = Cardinality({k \in IntKeys : map_int_int_contains(map, k)})
    /\ driven = "set_int" =>
          /\ \A k \in IntKeys : set_int_contains(set, k) <=> k \in live
          /\ set_int_size(set)
               = Cardinality({k \in IntKeys : set_int_contains(set, k)})

\* A key was removed from the middle of a chain of three colliding keys.
C2_Witness ==
    /\ driven = "map_int_int"
    /\ call.op = "map_int_int_remove" /\ call.ret = "true"
    /\ live = {-1, 17}
    /\ Len(map.buckets[2]) = 2

\* C3: an insert with a key that is present returns false and leaves size
\* unchanged (the maps then hold the new value for the key); an insert with a
\* key that is not present, when its allocations succeed, returns true and
\* increases size by exactly 1.  For map_int_int, mgen_str_int_map and set_int.
C3_InsertOrUpdate ==
    /\ driven = "map_int_int" =>
          \A key \in IntKeys, value \in Vals :
             IF map_int_int_contains(map, key)
             THEN \A okBuckets \in BOOLEAN, okEntry \in BOOLEAN :
                    LET r == MapInsertResult(map, key, value, okBuckets,
                                             okEntry, mgen_last_error)
                    IN  /\ r.ret = "false"
                        /\ map_int_int_size(r.map) = map_int_int_size(map)
                        /\ map_int_int_get(r.map, key) = <<value>>
             ELSE LET r == MapInsertResult(map, key, value, TRUE, TRUE,
                                           mgen_last_error)
                  IN  /\ r.ret = "true"
                      /\ map_int_int_size(r.map) = map_int_int_size(map) + 1
    /\ driven = "mgen_str_int_map" /\ ~strmap.freed =>
          \A key \in StrKeys, value \in Vals :
             IF mgen_str_int_map_contains(strmap, key)
             THEN \A okEntry \in BOOLEAN, okKey \in BOOLEAN :
                    LET r == StrInsertResult(strmap, key, value, okEntry,
                                             okKey, mgen_last_error)
                    IN  /\ r.ret = "false"
                        /\ mgen_str_int_map_size(r.map)
                             = mgen_str_int_map_size(strmap)
                        /\ mgen_str_int_map_get(r.map, key) = <<value>>
             ELSE LET r == StrInsertResult(strmap, key, value, TRUE, TRUE,
                                           mgen_last_error)
                  IN  /\ r.ret = "true"
                      /\ mgen_str_int_map_size(r.map)
                           = mgen_str_int_map_size(strmap) + 1
    /\ driven = "set_int" =>
          \A value \in IntKeys :
             IF set_int_contains(set, value)
             THEN \A okBuckets \in BOOLEAN, okEntry \in BOOLEAN :
                    LET r == SetInsertResult(set, value, okBuckets, okEntry,
                                             mgen_last_error)
                    IN  /\ r.ret = "false"
                        /\ set_int_size(r.set) = set_int_size(set)
             ELSE LET r == SetInsertResult(set, value, TRUE, TRUE,
                                           mgen_last_error)
                  IN  /\ r.ret = "true"
                      /\ set_int_size(r.set) = set_int_size(set) + 1

\* An insert of a present key, behind another key in its chain, has just
\* returned false without any allocation failing, the map holding two keys.
C3_Witness ==
    /\ driven = "map_int_int"
    /\ call.op = "map_int_int_insert" /\ call.ret = "false" /\ ~call.nomem
    /\ mgen_last_error = NoError
    /\ map_int_int_size(map) = 2
    /\ Len(map.buckets[2]) = 2
    /\ map_int_int_get(map, map.buckets[2][2].key) = <<20>>

(***************************************************************************)
(* Properties of the slice normalizer                                      *)
(***************************************************************************)

\* What Python's slice(start, stop, step).indices(L) computes.
PyStep(slice) == IF slice.has_step THEN slice.step ELSE 1

PyBound(has, v, step, L, dflt) ==
    IF ~has THEN dflt
    ELSE IF v < 0
         THEN (IF v + L < 0 THEN (IF step < 0 THEN -1 ELSE 0) ELSE v + L)
         ELSE (IF v >= L THEN (IF step < 0 THEN L - 1 ELSE L) ELSE v)

PyStart(slice, L) ==
    PyBound(slice.has_start, slice.start, PyStep(slice), L,
            IF PyStep(slice) < 0 THEN L - 1 ELSE 0)

PyStop(slice, L) ==
    PyBound(slice.has_stop, slice.stop, PyStep(slice), L,
            IF PyStep(slice) < 0 THEN -1 ELSE L)

PyLength(slice, L) ==
    LET step == PyStep(slice)
        start == PyStart(slice, L)
        stop == PyStop(slice, L)
    IN  IF step < 0
        THEN (IF stop < start THEN (start - stop - 1) \div (-step) + 1 ELSE 0)
        ELSE (IF start < stop THEN (stop - start - 1) \div step + 1 ELSE 0)

\* The i-th index Python selects, i from 0.
PyIndex(slice, L, i) == PyStart(slice, L) + i * PyStep(slice)

\* The i-th index reached from the normalized start by advancing by the
\* normalized step in the direction of the descriptor's step.
NormIndex(slice, result, i) ==
    IF PyStep(slice) < 0 THEN ToSize(result.start - i * result.step)
    ELSE ToSize(result.start + i * result.step)

\* C4: for every descriptor with a non-zero step and every sequence length,
\* mgen_normalize_python_slice returns MGEN_OK, the length it reports is the
\* number of elements Python's slice selects, and walking from the
\* normalized start by the step visits exactly the indices Python selects.
C4_MirrorsPython ==
    (/\ norm.ret # "none" /\ ~norm.null
     /\ PyStep(norm.slice) # 0)
    => /\ norm.ret = "MGEN_OK"
       /\ norm.result.length = PyLength(norm.slice, norm.seq_len)
       /\ \A i \in 0..(PyLength(norm.slice, norm.seq_len) - 1) :
             NormIndex(norm.slice, norm.result, i)
               = PyIndex(norm.slice, norm.seq_len, i)

\* C5: normalizing {start = -1, stop omitted, step = -1} for a sequence of
\* length L reports length L, starting at index L - 1 and reaching index 0
\* last.
C5_FullReverse ==
    (/\ norm.ret # "none" /\ ~norm.null
     /\ norm.slice = Slice(-1, 0, -1, TRUE, FALSE, TRUE))
    => /\ norm.ret = "MGEN_OK"
       /\ norm.result.length = norm.seq_len
       /\ norm.seq_len > 0 =>
             /\ norm.result.start = norm.seq_len - 1
             /\ NormIndex(norm.slice, norm.result, norm.seq_len - 1) = 0

(***************************************************************************)
(* Properties of the scope, the reference counted cell, the error context  *)
(***************************************************************************)

\* C6: when mgen_scope_free is called on a scope in which N distinct pointers
\* were registered (by mgen_scope_alloc or mgen_scope_register), every
\* registered pointer is released by that call and was released exactly once
\* in all, no other pointer is released, N bookkeeping entries are freed and
\* the scope itself is freed.
C6_ScopeFreeReleasesOnce ==
    [][(/\ call'.op = "mgen_scope_free"
        /\ scope.status = "live" /\ scope'.status = "freed"
        /\ Cardinality(RangeOf(scope.head)) = Len(scope.head))
       => /\ scope.count = Len(scope.head)
          /\ \A p \in Ptrs :
                heap'.released[p] = heap.released[p]
                    + (IF p \in RangeOf(scope.head) THEN 1 ELSE 0)
          /\ \A p \in RangeOf(scope.head) : heap'.released[p] = 1
          /\ heap'.entries_freed = heap.entries_freed + scope.count]_vars

\* A scope holding a pointer from mgen_scope_alloc and a pointer from
\* mgen_scope_register, three in all, was freed.
C6_Witness ==
    /\ driven = "scope"
    /\ call.op = "mgen_scope_free" /\ scope.status = "freed"
    /\ Cardinality(RangeOf(scope.head)) = 3 /\ Len(scope.head) = 3
    /\ \E p \in RangeOf(scope.head) : p \in heap.allocated
    /\ \E p \in RangeOf(scope.head) : p \notin heap.allocated
    /\ heap.entries_freed = 3

\* C7: for a cell with a destructor, created by mgen_refcounted_new and then
\* retained and released, the destructor has run exactly once when the
\* releases outnumber the retains (the release that took the count to 0), and
\* not at all before.
C7_DestructorAtFinalRelease ==
    (driven = "refcounted" /\ cell.destructor)
    => /\ cell.releases <= cell.retains + 1
       /\ cell.destroyed = (IF cell.releases = cell.retains + 1 THEN 1 ELSE 0)
       /\ (cell.status = "freed") <=> (cell.releases = cell.retains + 1)
       /\ cell.status = "live" =>
             mgen_refcounted_count(cell) = 1 + cell.retains - cell.releases

\* new; retain; release; release: the destructor ran at the second release.
C7_Witness ==
    /\ driven = "refcounted" /\ cell.destructor
    /\ call.op = "mgen_refcounted_release"
    /\ cell.status = "freed"
    /\ cell.retains = 1 /\ cell.releases = 2
    /\ cell.destroyed = 1

\* Functions that report a failure by returning NULL.
ReturnsNullOnFailure ==
    {"mgen_scope_new", "mgen_scope_alloc", "mgen_refcounted_new",
     "mgen_container_registry_new"}

\* C8: mgen_clear_error resets the error context to Ok; a call that succeeds
\* leaves the context as it was; a call that fails leaves its own error in
\* the context, whatever was there before.
C8_StickyError ==
    [][/\ call'.op = "mgen_clear_error" => mgen_last_error' = NoError
       /\ (/\ call'.op # "mgen_clear_error"
           /\ call'.ret \in {"MGEN_OK", "ptr", "void"})
          => mgen_last_error' = mgen_last_error
       /\ call'.ret \in {"MGEN_ERROR_VALUE", "MGEN_ERROR_MEMORY"}
          => mgen_last_error'.code = call'.ret
       /\ (call'.ret = "NULL" /\ call'.op \in ReturnsNullOnFailure)
          => /\ mgen_last_error'.code # "MGEN_OK"
             /\ mgen_last_error'.function \in ReturnsNullOnFailure
                                                 \cup {"mgen_malloc",
                                                       "mgen_scope_register"}
      ]_vars

(***************************************************************************)
(* Properties of the typed vector and of appending                         *)
(***************************************************************************)

\* C11: when the reallocation fails during a push on a full vector, the
\* vector keeps its size, capacity and contents, size <= capacity holds,
\* nothing is stored outside the block and MemoryError is recorded.
C11_PushGrowFailureKeepsVector ==
    [][(call'.op = "vec_int_push" /\ call'.nomem)
       => /\ vec' = vec
          /\ vec_int_size(vec') <= vec_int_capacity(vec')
          /\ vec_heap'.oob_write = vec_heap.oob_write
          /\ mgen_last_error'.code = "MGEN_ERROR_MEMORY"]_vars

\* C12: after n successful appends (pushes) of v1..vn from the empty
\* sequence, with no removal, size is n, capacity is at least n and position
\* i holds v(i+1) for every i below n.  For mgen_dyn_array_t and vec_int.
C12_HeldInPushOrder ==
    /\ (driven = "none" /\ pushed.valid)
       => /\ array.size = Len(pushed.seq)
          /\ array.capacity >= Len(pushed.seq)
          /\ \A i \in 0..(Len(pushed.seq) - 1) :
                ReadAt(array.data, i) = {pushed.seq[i + 1]}
    /\ (driven = "vec_int" /\ pushed.valid)
       => /\ vec_int_size(vec) = Len(pushed.seq)
          /\ vec_int_capacity(vec) >= Len(pushed.seq)
          /\ \A i \in 0..(Len(pushed.seq) - 1) :
                ReadAt(vec.data, i) = {pushed.seq[i + 1]}

\* C13: an append or insert that finds size = capacity and succeeds leaves
\* the capacity at capacity + capacity / 2, or at capacity + 1 when that is
\* not larger than the old capacity, so that the capacity has grown; one that
\* finds size < capacity leaves the capacity unchanged.
C13_GrowthRule ==
    [][(/\ call'.op \in {"mgen_dyn_array_append", "mgen_dyn_array_insert"}
        /\ call'.ret = "MGEN_OK")
       => /\ array.size = array.capacity
             => /\ array'.capacity =
                     (IF array.capacity + array.capacity \div 2 <= array.capacity
                      THEN array.capacity + 1
                      ELSE array.capacity + array.capacity \div 2)
                /\ array'.capacity > array.capacity
          /\ array.size < array.capacity
             => array'.capacity = array.capacity]_vars

(***************************************************************************)
(* Structure of the hash tables                                            *)
(***************************************************************************)

\* Number of entries in the chains of the first n buckets.
RECURSIVE EntryCount(_, _)
EntryCount(buckets, n) ==
    IF n = 0 THEN 0
    ELSE Len(buckets[n]) + EntryCount(buckets, n - 1)

\* Every entry of chain b (1-based) has Home(entry) = b - 1, no two entries
\* of the table have the same Id, and size is the number of entries.
WellFormed(t, Home(_), Id(_)) ==
    /\ Len(t.buckets) = t.bucket_count
    /\ \A b \in 1..Len(t.buckets) :
          \A i \in 1..Len(t.buckets[b]) : Home(t.buckets[b][i]) = b - 1
    /\ \A b, c \in 1..Len(t.buckets) :
          \A i \in 1..Len(t.buckets[b]), j \in 1..Len(t.buckets[c]) :
             Id(t.buckets[b][i]) = Id(t.buckets[c][j]) => (b = c /\ i = j)
    /\ t.size = EntryCount(t.buckets, Len(t.buckets))

\* C14: in every reachable state of map_int_int, set_int and
\* mgen_str_int_map every entry sits in the chain of bucket
\* hash(key) mod bucket_count, no key occurs in two entries, and size is the
\* total number of entries.  (Chains are finite sequences of entries.)
C14_ChainsWellFormed ==
    /\ driven = "map_int_int" =>
          LET Home(e) == (IF e.key < 0 THEN -e.key ELSE e.key) % map.bucket_count
              Id(e) == e.key
          IN  WellFormed(map, Home, Id)
    /\ driven = "set_int" =>
          LET Home(e) == (IF e.value < 0 THEN -e.value ELSE e.value)
                            % set.bucket_count
              Id(e) == e.value
          IN  WellFormed(set, Home, Id)
    /\ driven = "mgen_str_int_map" =>
          LET Home(e) == hash_string(e.key) % strmap.bucket_count
              Id(e) == e.key
          IN  WellFormed(strmap, Home, Id)

\* The keys 1 and 17 share a chain with -1 while 2 sits in another chain.
C14_Witness ==
    /\ driven = "map_int_int"
    /\ map.bucket_count = DEFAULT_BUCKET_COUNT
    /\ Len(map.buckets[2]) = 3
    /\ Len(map.buckets[3]) = 1
    /\ map_int_int_size(map) = 4


\* The scenario of the specification: keys 1, 2, 3 inserted with the values
\* 10, 20, 30 into an initialized map of 16 buckets, then key 2 removed.
ScenarioInserted ==
    LET m1 == MapInsertResult(map_int_int_init, 1, 10, TRUE, TRUE, NoError).map
        m2 == MapInsertResult(m1, 2, 20, TRUE, TRUE, NoError).map
    IN  MapInsertResult(m2, 3, 30, TRUE, TRUE, NoError).map

\* C15: on map_int_int, get(k) points to the value most recently inserted for
\* k when k is present and is NULL otherwise (an insert sets the value of its
\* key and leaves every other key alone); remove(k) on a present key returns
\* true, decreases size by exactly 1, makes get(k) and contains(k) report
\* not-found and leaves every other key with its value; remove(k) on an
\* absent key returns false and changes neither size nor any entry.  With 1,
\* 2, 3 -> 10, 20, 30 inserted, size is 3, get(2) is 20, remove(2) is true,
\* size is then 2 and get(2) not-found.
C15_GetAndRemove ==
    /\ driven = "map_int_int" =>
          /\ \A k \in IntKeys :
                map_int_int_contains(map, k) <=> map_int_int_get(map, k) # <<>>
          /\ \A key \in IntKeys, value \in Vals :
             \A okBuckets \in BOOLEAN, okEntry \in BOOLEAN :
                LET r == MapInsertResult(map, key, value, okBuckets, okEntry,
                                         mgen_last_error)
                IN  /\ \A k \in IntKeys \ {key} :
                          map_int_int_get(r.map, k) = map_int_int_get(map, k)
                    /\ map_int_int_get(r.map, key)
                          \in {<<value>>, map_int_int_get(map, key)}
                    /\ (map_int_int_contains(map, key)
                         \/ (okBuckets /\ okEntry))
                          => map_int_int_get(r.map, key) = <<value>>
          /\ map.buckets # <<>> =>
                \A key \in IntKeys :
                   LET r == MapRemoveResult(map, key)
                   IN  IF map_int_int_contains(map, key)
                       THEN /\ r.ret = "true"
                            /\ map_int_int_size(r.map)
                                  = map_int_int_size(map) - 1
                            /\ map_int_int_get(r.map, key) = <<>>
                            /\ ~map_int_int_contains(r.map, key)
                            /\ \A k \in IntKeys \ {key} :
                                  map_int_int_get(r.map, k)
                                    = map_int_int_get(map, k)
                       ELSE r.ret = "false" /\ r.map = map
    /\ map_int_int_size(ScenarioInserted) = 3
    /\ map_int_int_get(ScenarioInserted, 2) = <<20>>
    /\ LET r == MapRemoveResult(ScenarioInserted, 2)
       IN  /\ r.ret = "true"
           /\ map_int_int_size(r.map) = 2
           /\ map_int_int_get(r.map, 2) = <<>>
           /\ map_int_int_get(r.map, 1) = <<10>>
           /\ map_int_int_get(r.map, 3) = <<30>>

\* The head of a chain of three colliding keys was removed; the two keys left
\* in the chain keep different values.
C15_Witness ==
    /\ driven = "map_int_int"
    /\ call.op = "map_int_int_remove" /\ call.ret = "true"
    /\ map_int_int_size(map) = 2
    /\ map_int_int_get(map, 1) = <<20>>
    /\ map_int_int_get(map, 17) = <<10>>
    /\ map_int_int_get(map, -1) = <<>>


\* The calls that leave the Error Context alone give the same answers on the
\* zero-valued table and on the table the init function returns, and the
\* first insert gives the zero-valued table its 16 buckets.
LazyInitQueries ==
    /\ \A k \in IntKeys :
          /\ map_int_int_get(MapZero, k) = map_int_int_get(map_int_int_init, k)
          /\ map_int_int_contains(MapZero, k)
                = map_int_int_contains(map_int_int_init, k)
          /\ set_int_contains(SetZero, k) = set_int_contains(set_int_init, k)
    /\ map_int_int_size(MapZero) = map_int_int_size(map_int_int_init)
    /\ map_int_int_empty(MapZero) = map_int_int_empty(map_int_int_init)
    /\ set_int_size(SetZero) = set_int_size(set_int_init)
    /\ set_int_empty(SetZero) = set_int_empty(set_int_init)
    /\ map_int_int_size(MapClearResult(MapZero))
          = map_int_int_size(MapClearResult(map_int_int_init))
    /\ set_int_size(SetClearResult(SetZero))
          = set_int_size(SetClearResult(set_int_init))
    /\ MapDropResult(MapZero) = MapDropResult(map_int_int_init)
    /\ SetDropResult(SetZero) = SetDropResult(set_int_init)
    /\ \A k \in IntKeys, v \in Vals, okEntry \in BOOLEAN :
          /\ MapInsertResult(MapZero, k, v, TRUE, okEntry, mgen_last_error)
               = MapInsertResult(map_int_int_init, k, v, TRUE, okEntry,
                                 mgen_last_error)
          /\ SetInsertResult(SetZero, k, TRUE, okEntry, mgen_last_error)
               = SetInsertResult(set_int_init, k, TRUE, okEntry,
                                 mgen_last_error)
          /\ Len(MapInsertResult(MapZero, k, v, TRUE, okEntry,
                                 mgen_last_error).map.buckets)
               = DEFAULT_BUCKET_COUNT
          /\ Len(SetInsertResult(SetZero, k, TRUE, okEntry,
                                 mgen_last_error).set.buckets)
               = DEFAULT_BUCKET_COUNT

\* C16: a zero-valued map_int_int or set_int is observationally equivalent to
\* the one the init function returns: every call gives the same return value
\* and the same Error Context update on both, and the first insert allocates
\* the 16 buckets.  On the initialized empty table a remove returns false
\* and leaves the Error Context alone, so a remove on the zero-valued table
\* has to do the same.
C16_LazyInitEquivalent ==
    [][/\ LazyInitQueries
       /\ \A key \in IntKeys :
             /\ (driven = "map_int_int" /\ map = MapZero
                 /\ map_int_int_remove(FALSE, key))
                   => /\ call'.ret = MapRemoveResult(map_int_int_init, key).ret
                      /\ mgen_last_error' = mgen_last_error
             /\ (driven = "set_int" /\ set = SetZero
                 /\ set_int_remove(FALSE, key))
                   => /\ call'.ret = SetRemoveResult(set_int_init, key).ret
                      /\ mgen_last_error' = mgen_last_error]_vars


\* Every entry of old that new still holds lies in the chain of the same
\* bucket.
StaysInChain(old, new, Id(_)) ==
    \A b \in 1..Len(old) : \A i \in 1..Len(old[b]) :
       \A c \in 1..Len(new) : \A j \in 1..Len(new[c]) :
          Id(new[c][j]) = Id(old[b][i]) => c = b

\* C17: the bucket count of a table is fixed from the moment its bucket
\* array is allocated until drop: 16 for map_int_int and set_int, the
\* creation capacity for mgen_str_int_map, whatever the number of entries.
\* No insert, remove or clear changes bucket_count or the length of the
\* bucket array, or moves an entry to another chain; only drop takes the
\* bucket array away.
C17_NoRehashing ==
    [][/\ driven = "map_int_int" /\ map.buckets # <<>> =>
             /\ map.bucket_count = DEFAULT_BUCKET_COUNT
             /\ map'.buckets = <<>> => call'.op = "map_int_int_drop"
             /\ map'.buckets # <<>> =>
                   /\ map'.bucket_count = map.bucket_count
                   /\ Len(map'.buckets) = Len(map.buckets)
                   /\ LET Id(e) == e.key
                      IN  StaysInChain(map.buckets, map'.buckets, Id)
       /\ driven = "set_int" /\ set.buckets # <<>> =>
             /\ set.bucket_count = DEFAULT_BUCKET_COUNT
             /\ set'.buckets = <<>> => call'.op = "set_int_drop"
             /\ set'.buckets # <<>> =>
                   /\ set'.bucket_count = set.bucket_count
                   /\ Len(set'.buckets) = Len(set.buckets)
                   /\ LET Id(e) == e.value
                      IN  StaysInChain(set.buckets, set'.buckets, Id)
       /\ driven = "mgen_str_int_map" /\ ~strmap.freed =>
             /\ strmap.bucket_count \in StrCaps
             /\ strmap'.bucket_count = strmap.bucket_count
             /\ Len(strmap'.buckets) = Len(strmap.buckets)
             /\ LET Id(e) == e.key
                IN  StaysInChain(strmap.buckets, strmap'.buckets, Id)]_vars

\* A string map created with 2 buckets holds 3 entries after an insert.
C17_Witness ==
    /\ driven = "mgen_str_int_map"
    /\ call.op = "mgen_str_int_map_insert" /\ call.ret = "true"
    /\ strmap.bucket_count = 2
    /\ Len(strmap.buckets) = 2
    /\ mgen_str_int_map_size(strmap) = 3


\* C18: clear on a hash table removes every entry (size becomes 0, every
\* bucket is empty, contains is false for every key) and keeps the bucket
\* array and bucket_count, so that a later insert needs no new bucket array;
\* clear on a zero-valued table changes nothing.  For map_int_int_clear,
\* set_int_clear and mgen_str_int_map_clear.
C18_ClearKeepsBuckets ==
    [][/\ (driven = "map_int_int" /\ map_int_int_clear(FALSE)) =>
             IF map = MapZero THEN map' = map
             ELSE /\ map_int_int_size(map') = 0
                  /\ map'.bucket_count = map.bucket_count
                  /\ Len(map'.buckets) = Len(map.buckets)
                  /\ \A b \in 1..Len(map'.buckets) : map'.buckets[b] = <<>>
                  /\ \A k \in IntKeys : ~map_int_int_contains(map', k)
                  /\ \A k \in IntKeys, v \in Vals :
                        MapInsertResult(map', k, v, FALSE, TRUE,
                                        mgen_last_error).ret = "true"
       /\ (driven = "set_int" /\ set_int_clear(FALSE)) =>
             IF set = SetZero THEN set' = set
             ELSE /\ set_int_size(set') = 0
                  /\ set'.bucket_count = set.bucket_count
                  /\ Len(set'.buckets) = Len(set.buckets)
                  /\ \A b \in 1..Len(set'.buckets) : set'.buckets[b] = <<>>
                  /\ \A k \in IntKeys : ~set_int_contains(set', k)
                  /\ \A k \in IntKeys :
                        SetInsertResult(set', k, FALSE, TRUE,
                                        mgen_last_error).ret = "true"
       /\ (driven = "mgen_str_int_map" /\ ~strmap.freed
           /\ mgen_str_int_map_clear(FALSE)) =>
             /\ mgen_str_int_map_size(strmap') = 0
             /\ strmap'.bucket_count = strmap.bucket_count
             /\ Len(strmap'.buckets) = Len(strmap.buckets)
             /\ \A b \in 1..Len(strmap'.buckets) : strmap'.buckets[b] = <<>>
             /\ \A k \in StrKeys : ~mgen_str_int_map_contains(strmap', k)]_vars

\* A set_int with a bucket array was cleared, after inserts one of which
\* failed on its entry; it keeps its 16 buckets.
C18_Witness ==
    /\ driven = "set_int"
    /\ call.op = "set_int_clear"
    /\ set_int_size(set) = 0
    /\ set.bucket_count = DEFAULT_BUCKET_COUNT
    /\ Len(set.buckets) = DEFAULT_BUCKET_COUNT
    /\ mgen_last_error.message = "Failed to allocate set entry"


\* Number of heap blocks a drop gives back on a table: map_int_int_clear /
\* set_int_clear free every entry of every chain when there is a bucket
\* array, then free(buckets) releases the array unless it is NULL.
BlocksFreedByDrop(t) ==
    (IF t.buckets = <<>> THEN 0 ELSE EntryCount(t.buckets, Len(t.buckets)))
      + Released(t.buckets)

\* C19: drop (vec_int_drop, map_int_int_drop, set_int_drop) always succeeds
\* (no error is recorded), releases the storage the container owns exactly
\* once (the data block of a vector; the entries and the bucket array of a
\* table) and leaves the container zero-valued.  It is idempotent: on a
\* zero-valued or dropped container it changes nothing and releases nothing.
\* The container is usable afterwards: a later push / insert allocates its
\* storage again.
C19_DropReleasesAndResets ==
    [][/\ (driven = "vec_int" /\ vec_int_drop(FALSE)) =>
             /\ vec' = VecZero
             /\ mgen_last_error' = mgen_last_error
             /\ vec_heap'.released = (IF vec.data = <<>> THEN 0 ELSE 1)
             /\ vec = VecZero => vec_heap'.released = 0
             /\ Released(vec'.data) = 0
             /\ \A value \in Values :
                   LET r == VecPushResult(vec', value, TRUE, mgen_last_error,
                                          FALSE)
                   IN  /\ ~r.oob
                       /\ r.err = mgen_last_error
                       /\ vec_int_size(r.vec) = 1
                       /\ vec_int_capacity(r.vec) = DEFAULT_CAPACITY
                       /\ Len(r.vec.data) = DEFAULT_CAPACITY
                       /\ r.vec.data[1] = value
       /\ (driven = "map_int_int" /\ map_int_int_drop(FALSE)) =>
             /\ map' = MapZero
             /\ mgen_last_error' = mgen_last_error
             /\ BlocksFreedByDrop(map)
                  = map_int_int_size(map)
                      + (IF map.buckets = <<>> THEN 0 ELSE 1)
             /\ BlocksFreedByDrop(map') = 0
             /\ MapDropResult(map') = map'
             /\ \A k \in IntKeys, v \in Vals :
                   LET r == MapInsertResult(map', k, v, TRUE, TRUE,
                                            mgen_last_error)
                   IN  /\ r.ret = "true"
                       /\ Len(r.map.buckets) = DEFAULT_BUCKET_COUNT
                       /\ map_int_int_get(r.map, k) = <<v>>
       /\ (driven = "set_int" /\ set_int_drop(FALSE)) =>
             /\ set' = SetZero
             /\ mgen_last_error' = mgen_last_error
             /\ BlocksFreedByDrop(set)
                  = set_int_size(set) + (IF set.buckets = <<>> THEN 0 ELSE 1)
             /\ BlocksFreedByDrop(set') = 0
             /\ SetDropResult(set') = set'
             /\ \A k \in IntKeys :
                   LET r == SetInsertResult(set', k, TRUE, TRUE,
                                            mgen_last_error)
                   IN  /\ r.ret = "true"
                       /\ Len(r.set.buckets) = DEFAULT_BUCKET_COUNT
                       /\ set_int_contains(r.set, k)]_vars

\* A vector that held elements was dropped and released its block.
C19_Witness ==
    /\ driven = "vec_int"
    /\ call.op = "vec_int_drop"
    /\ vec = VecZero
    /\ vec_heap.released = 1
    /\ ~pushed.valid

\* C20: mgen_normalize_python_slice called (with non-NULL arguments) on a
\* descriptor whose step is explicitly 0 returns MGEN_ERROR_VALUE, records
\* ValueError in the Error Context and writes nothing to the result, for
\* every start, stop and length; with a step that is not zero or is omitted
\* it returns MGEN_OK.
C20_ZeroStepIsValueError ==
    [][mgen_normalize_python_slice(FALSE) =>
          IF norm.slice.has_step /\ norm.slice.step = 0
          THEN /\ call'.ret = "MGEN_ERROR_VALUE"
               /\ norm'.ret = "MGEN_ERROR_VALUE"
               /\ mgen_last_error'.code = "MGEN_ERROR_VALUE"
               /\ norm'.result = norm.result
          ELSE /\ call'.ret = "MGEN_OK"
               /\ norm'.ret = "MGEN_OK"]_vars

\* A slice [2:-1:0] of a sequence of length 3 was turned away.
C20_Witness ==
    /\ norm.slice = mgen_slice_full(2, -1, 0)
    /\ norm.seq_len = 3
    /\ ~norm.null
    /\ norm.ret = "MGEN_ERROR_VALUE"
    /\ norm.result = NoResult
    /\ mgen_last_error.line = 278

\* A bound of a positive-step slice as the specification resolves it: the
\* default when omitted, the length added to a negative value, then clamped
\* into [0, L].
ResolvedBound(has, v, dflt, L) ==
    IF ~has THEN dflt
    ELSE LET w == IF v < 0 THEN v + L ELSE v
         IN  IF w < 0 THEN 0 ELSE IF w > L THEN L ELSE w

\* ceil((stop - start) / step) when start < stop, 0 otherwise.
CeilLength(start, stop, step) ==
    IF start < stop THEN (stop - start + step - 1) \div step ELSE 0

EntriesFor(head, c) ==
    Cardinality({i \in 1..Len(head) : head[i].container = c})

RoundedUp(size) == ((size + PointerSize - 1) \div PointerSize) * PointerSize

\* The regions lie inside a storage of the given capacity and no two of them
\* share a byte.
RegionsDisjointInside(regions, capacity) ==
    /\ \A i \in 1..Len(regions) :
          regions[i].offset + regions[i].len <= capacity
    /\ \A i, j \in 1..Len(regions) :
          i < j => regions[i].offset + regions[i].len <= regions[j].offset

\* C23: in every reachable state of a pool used <= capacity.  Every
\* mgen_memory_pool_alloc(size) on a pool returns; when it succeeds it returns
\* the region that starts at the previous used offset and advances used by
\* size rounded up to a multiple of the pointer size, so that the regions
\* returned since the last reset are pairwise disjoint and lie inside the
\* storage; when used + size exceeds capacity the capacity is doubled until
\* the request fits; when it fails (NULL) used and capacity are unchanged.
C23_BumpAllocation ==
    [][\A size \in PoolSizes :
          (/\ driven = "pool" /\ pool.status = "live"
           /\ mgen_memory_pool_alloc(FALSE, size))
          => /\ pool.used <= pool.capacity
             /\ call'.ret \in {"ptr", "NULL"}
             /\ call'.ret = "NULL" =>
                   /\ pool'.used = pool.used
                   /\ pool'.capacity = pool.capacity
             /\ call'.ret = "ptr" =>
                   /\ pool'.regions[Len(pool'.regions)].offset = pool.used
                   /\ pool'.regions[Len(pool'.regions)].len = size
                   /\ pool'.used = pool.used + RoundedUp(size)
                   /\ pool'.used <= pool'.capacity
                   /\ IF pool.used + RoundedUp(size) > pool.capacity
                      THEN \E k \in 1..12 :
                              /\ pool'.capacity = pool.capacity * (2 ^ k)
                              /\ pool'.capacity >= pool.used + RoundedUp(size)
                              /\ k > 1 => pool'.capacity \div 2
                                            < pool.used + RoundedUp(size)
                      ELSE pool'.capacity = pool.capacity
                   /\ RegionsDisjointInside(pool'.regions, pool'.capacity)]_vars

\* C24: mgen_memory_pool_reset rewinds the pool without releasing it: used
\* and the allocation counter become 0, the storage block and the capacity
\* are unchanged, and an allocation after the reset that fits the capacity
\* is served from offset 0 of the same storage.  mgen_memory_pool_free
\* releases the storage exactly once (and the pool object with it).
C24_ResetRewinds ==
    [][/\ (driven = "pool" /\ pool.status = "live"
           /\ mgen_memory_pool_reset(FALSE))
          => /\ pool'.status = "live"
             /\ pool'.used = 0
             /\ pool'.size = 0
             /\ pool'.block = pool.block
             /\ pool'.capacity = pool.capacity
             /\ pool'.data_freed = 0 /\ pool'.pool_freed = 0
             /\ mgen_last_error' = mgen_last_error
             /\ \A size \in {z \in PoolSizes : RoundedUp(z) <= pool.capacity},
                   outcome \in ReallocOutcomes :
                   LET r == PoolAllocResult(pool', size, outcome,
                                            mgen_last_error)
                   IN  /\ r.ret = "ptr"
                       /\ r.pool.regions
                            = <<[block |-> pool.block, offset |-> 0,
                                 len |-> size]>>
                       /\ r.pool.capacity = pool.capacity
       /\ (driven = "pool" /\ pool.status = "live"
           /\ mgen_memory_pool_free(FALSE))
          => /\ pool.data_freed = 0 /\ pool.pool_freed = 0
             /\ pool'.data_freed = 1 /\ pool'.pool_freed = 1
             /\ pool'.status = "freed"
             /\ mgen_last_error' = mgen_last_error]_vars

\* A pool whose storage had grown from 8 to 16 bytes and moved was reset.
C24_Witness ==
    /\ driven = "pool"
    /\ call.op = "mgen_memory_pool_reset"
    /\ pool.status = "live"
    /\ pool.used = 0 /\ pool.size = 0
    /\ pool.capacity = 16 /\ pool.block = 2

\* C25: every pointer mgen_memory_pool_alloc returned since the last reset
\* refers to live storage owned by the pool, that is to the block pool->data
\* points to, also after later allocations that made the pool grow.
C25_PointersStayLive ==
    (driven = "pool" /\ pool.status = "live") =>
       \A i \in 1..Len(pool.regions) : pool.regions[i].block = pool.block

\* The reference count of a live cell is at least 1 and is 1 + retains -
\* releases.
CountInvariant(c) ==
    c.status = "live" =>
       /\ mgen_refcounted_count(c) >= 1
       /\ mgen_refcounted_count(c) = 1 + c.retains - c.releases

\* C26: while a cell is live its count is >= 1 and equals 1 + (number of
\* retains) - (number of releases) since creation; retain never fails and
\* returns the same cell; the cell is freed exactly at the release that
\* makes the count <= 0 and at no other point.
C26_ReferenceCount ==
    [][driven = "refcounted" =>
          /\ CountInvariant(cell)
          /\ CountInvariant(cell')
          /\ (cell.status = "live" /\ mgen_refcounted_retain(FALSE)) =>
                /\ call'.ret = "ptr"
                /\ cell'.status = "live"
                /\ mgen_refcounted_count(cell')
                     = mgen_refcounted_count(cell) + 1
                /\ mgen_last_error' = mgen_last_error
          /\ (cell.status = "live" /\ cell'.status = "freed")
                <=> (/\ cell.status = "live"
                     /\ mgen_refcounted_release(FALSE)
                     /\ mgen_refcounted_count(cell) - 1 <= 0)]_vars

\* new; retain; retain; release; release: the cell without destructor is
\* live with count 1.
C26_Witness ==
    /\ driven = "refcounted" /\ ~cell.destructor
    /\ call.op = "mgen_refcounted_release"
    /\ cell.status = "live"
    /\ cell.retains = 2 /\ cell.releases = 2
    /\ mgen_refcounted_count(cell) = 1

(***************************************************************************)
(* Properties of lookups                                                   *)
(***************************************************************************)

\* C27: a lookup of an absent key on the table itself (map_int_int_get,
\* mgen_str_int_map_get, contains) returns the not-found value and leaves the
\* Error Context alone; the strict adapters mgen_map_get_safe_impl and
\* mgen_hmap_get_safe return NULL and record KeyError for an absent key, and
\* return the pointer to the value without recording an error for a present
\* key.
C27_MissingKey ==
    [][IsMap =>
          \A key \in LookupKeys :
             /\ GetCall(GetName, Got(key)) =>
                   /\ mgen_last_error' = mgen_last_error
                   /\ key \notin live => call'.ret = "NULL"
                   /\ key \in live => call'.ret = "ptr"
             /\ ContainsCall(ContainsName, Found(key)) =>
                   /\ mgen_last_error' = mgen_last_error
                   /\ call'.ret = (IF key \in live THEN "true" ELSE "false")
             /\ (\/ mgen_map_get_safe_impl(FALSE, Found(key), Got(key))
                 \/ mgen_hmap_get_safe(FALSE, Got(key))) =>
                   IF key \in live
                   THEN /\ call'.ret = "ptr"
                        /\ <<call'.out>> = Got(key)
                        /\ mgen_last_error' = mgen_last_error
                   ELSE /\ call'.ret = "NULL"
                        /\ mgen_last_error'.code = "MGEN_ERROR_KEY"]_vars

\* The strict adapter of mgen_container_ops.c was asked for a key that is
\* not in a string map holding another key.
C27_Witness ==
    /\ driven = "mgen_str_int_map"
    /\ call.op = "mgen_hmap_get_safe" /\ call.ret = "NULL"
    /\ mgen_last_error.code = "MGEN_ERROR_KEY"
    /\ mgen_last_error.line = 108
    /\ mgen_str_int_map_size(strmap) = 1


(***************************************************************************)
(* Properties of owned string keys                                         *)
(***************************************************************************)
\* The keys held by the entries of chain, from entry i on, equal to key.
RECURSIVE KeysHeld(_, _, _)
KeysHeld(chain, key, i) ==
    IF i > Len(chain) THEN 0
    ELSE (IF chain[i].key = key THEN 1 ELSE 0) + KeysHeld(chain, key, i + 1)

RECURSIVE KeysHeldFrom(_, _, _)
KeysHeldFrom(m, key, b) ==
    IF b > Len(m.buckets) THEN 0
    ELSE KeysHeld(m.buckets[b], key, 1) + KeysHeldFrom(m, key, b + 1)

\* C28: in mgen_str_int_map every key that is in the table has exactly one
\* allocated copy, owned by its entry (made by the insert that created the
\* entry, none added by an update), a key that is not in the table has none
\* (released by remove, clear or free), so nothing stays allocated after clear
\* or free, and no key copy is ever released twice.
C28_OwnedKeys ==
    driven = "mgen_str_int_map" =>
       /\ ~strmap.key_freed_twice
       /\ \A key \in StrKeys :
             /\ strmap.key_copies[key] = KeysHeldFrom(strmap, key, 1)
             /\ strmap.key_copies[key]
                   = (IF mgen_str_int_map_contains(strmap, key) THEN 1 ELSE 0)
       /\ (call.op \in {"mgen_str_int_map_clear", "mgen_str_int_map_free"}
           /\ (strmap.size = 0 \/ strmap.freed)) =>
             \A key \in StrKeys : strmap.key_copies[key] = 0
       /\ strmap.freed => \A key \in StrKeys : strmap.key_copies[key] = 0

\* Two keys were inserted and one of them was removed: its copy is released,
\* the copy of the other one is still held.
C28_Witness ==
    /\ driven = "mgen_str_int_map" /\ ~strmap.freed
    /\ call.op = "mgen_str_int_map_remove" /\ call.ret = "true"
    /\ strmap.key_copies[<<97>>] = 0
    /\ strmap.key_copies[<<97, 98>>] = 1
    /\ mgen_str_int_map_size(strmap) = 1

(***************************************************************************)
(* Properties of process termination                                       *)
(***************************************************************************)
\* C29: no operation of the C-backend core terminates the process, and an
\* operation of the LLVM minimal runtime (vec_int, map_int_int, set_int)
\* terminates it only when a memory allocation failed: an out-of-range index,
\* a NULL argument or a missing key is reported through the return value.
C29_ExitOnlyOnAllocationFailure ==
    minimal.exited =>
       /\ driven \in MinimalKinds
       /\ minimal.cause = "allocation failure"

(***************************************************************************)
(* Properties of the return value of insert                                *)
(***************************************************************************)
\* C30: on a non-NULL map, whether or not an allocation fails,
\* map_int_int_insert returns true exactly when the key was absent before the
\* call and is stored afterwards, and when it returns false the key was
\* present before the call and maps to the given value afterwards.
C30_InsertReportsCreated ==
    [][\A key \in IntKeys, value \in Vals :
          (driven = "map_int_int" /\ map_int_int_insert(FALSE, key, value)) =>
             /\ call'.ret = "true" <=>
                   /\ ~map_int_int_contains(map, key)
                   /\ map_int_int_get(map', key) = <<value>>
             /\ call'.ret = "false" =>
                   /\ map_int_int_contains(map, key)
                   /\ map_int_int_get(map', key) = <<value>>]_vars

(***************************************************************************)
(* Properties of the capacity of the dynamic array                         *)
(***************************************************************************)
\* What a read of each of the first n positions can yield is, after the
\* step, among what it could yield before the step.
ElementsPreserved(n) ==
    \A p \in 0..(n - 1) : ReadAt(array'.data, p) \subseteq ReadAt(array.data, p)

\* C31: the capacity of the dynamic array goes down in no step but a
\* shrink_to_fit on an array with size > 0, which makes it exactly size;
\* shrink_to_fit leaves an array with size = 0 as it is, and reserve with a
\* value that is not larger than the capacity changes nothing; reserve and
\* shrink_to_fit keep the size and the stored elements.
C31_CapacityNeverShrinks ==
    [][/\ array'.capacity < array.capacity =>
             /\ call'.op = "mgen_dyn_array_shrink_to_fit"
             /\ array.size > 0
             /\ array'.capacity = array.size
       /\ mgen_dyn_array_shrink_to_fit(FALSE) =>
             /\ array.size = 0 => array' = array
             /\ (array.size > 0 /\ call'.ret = "MGEN_OK") =>
                   array'.capacity = array.size
             /\ array'.size = array.size
             /\ ElementsPreserved(array.size)
       /\ \A new_capacity \in 0..MaxReserve :
             mgen_dyn_array_reserve(FALSE, new_capacity) =>
                /\ new_capacity <= array.capacity => array' = array
                /\ array'.capacity >= array.capacity
                /\ call'.ret = "MGEN_OK" => array'.capacity >= new_capacity
                /\ array'.size = array.size
                /\ ElementsPreserved(array.size)]_vars

\* shrink_to_fit succeeded on an array that holds two elements: the block
\* has exactly two cells and both elements are in it.
C31_Witness ==
    /\ call.op = "mgen_dyn_array_shrink_to_fit" /\ call.ret = "MGEN_OK"
    /\ array.size = 2 /\ array.capacity = 2
    /\ Len(array.data) = 2
    /\ array.data[1] # Uninit /\ array.data[2] # Uninit

(***************************************************************************)
(* Properties of the index adapters                                        *)
(***************************************************************************)
\* What Python's index normalization gives for index and a sequence of size
\* elements: the position, or -1 when there is none.
NormalizedIndex(index, size) ==
    IF 0 <= index /\ index < size THEN index
    ELSE IF -size <= index /\ index < 0 THEN index + size
    ELSE -1

\* C32: mgen_normalize_index(index, size) returns index for 0 <= index < size,
\* index + size for -size <= index < 0, and -1 with IndexError recorded for
\* every other index, so its result is -1 or within [0, size);
\* mgen_vec_at_safe_impl calls the accessor exactly for these in-range
\* positions and returns NULL without calling it otherwise.
C32_NormalizeIndex ==
    [][\A index \in IndexInts, size \in IndexSizes :
          /\ (driven = "index" /\ mgen_normalize_index(index, size)) =>
                /\ indexed'.ret = NormalizedIndex(index, size)
                /\ indexed'.ret = -1 =>
                      mgen_last_error'.code = "MGEN_ERROR_INDEX"
                /\ indexed'.ret # -1 => mgen_last_error' = mgen_last_error
          /\ (driven = "index"
              /\ mgen_vec_at_safe_impl(FALSE, index, size)) =>
                indexed'.at = IF NormalizedIndex(index, size) = -1 THEN <<>>
                              ELSE <<NormalizedIndex(index, size)>>]_vars

(***************************************************************************)
(* Properties of the range of a normalized slice                           *)
(***************************************************************************)
\* C33: for every descriptor with a non-zero step and every length L, the
\* result of mgen_normalize_python_slice has length <= L, start and stop are
\* not beyond L (the -1 of a negative step does not show up as a huge
\* unsigned value), and every index it denotes lies in [0, L).
C33_WithinSequence ==
    (/\ norm.ret # "none" /\ ~norm.null
     /\ PyStep(norm.slice) # 0)
    => /\ norm.ret = "MGEN_OK"
       /\ norm.result.length <= norm.seq_len
       /\ norm.result.start <= norm.seq_len
       /\ norm.result.stop <= norm.seq_len
       /\ \A i \in 0..(norm.seq_len - 1) :
             i < norm.result.length =>
                /\ NormIndex(norm.slice, norm.result, i) >= 0
                /\ NormIndex(norm.slice, norm.result, i) < norm.seq_len

(***************************************************************************)
(* Properties of registration in a scope                                   *)
(***************************************************************************)
\* The number of entries of the list that hold ptr.
Registrations(entries, ptr) ==
    Cardinality({i \in 1..Len(entries) : entries[i] = ptr})

\* C34: mgen_scope_alloc either returns the new block, which then has exactly
\* one entry in the scope, or returns NULL with the entries and the count of
\* the scope as they were and with the block, if one was allocated, released
\* again; mgen_scope_register with a NULL scope or NULL pointer fails with
\* MGEN_ERROR_VALUE, with a failed entry allocation with MGEN_ERROR_MEMORY,
\* and registers nothing in either case.
C34_AllocRegistersOrUndoes ==
    [][(driven = "scope" /\ scope.status = "live") =>
          \A ptr \in Ptrs :
             /\ \A size \in AllocSizes :
                   (/\ ptr \notin heap.allocated
                    /\ ptr \notin RangeOf(scope.head)
                    /\ heap.released[ptr] = 0
                    /\ mgen_scope_alloc(FALSE, size, ptr)) =>
                      IF call'.ret = "ptr"
                      THEN /\ Registrations(scope'.head, ptr) = 1
                           /\ scope'.head = <<ptr>> \o scope.head
                           /\ scope'.count = scope.count + 1
                           /\ ptr \in heap'.allocated
                           /\ heap'.released[ptr] = 0
                      ELSE /\ call'.ret = "NULL"
                           /\ scope' = scope
                           /\ mgen_last_error'.code
                                \in {"MGEN_ERROR_VALUE", "MGEN_ERROR_MEMORY"}
                           /\ \A p \in heap'.allocated \ heap.allocated :
                                 heap'.released[p] = 1
             /\ (\/ mgen_scope_register(TRUE, FALSE, ptr)
                 \/ mgen_scope_register(FALSE, TRUE, ptr)) =>
                   /\ call'.ret = "MGEN_ERROR_VALUE"
                   /\ mgen_last_error'.code = "MGEN_ERROR_VALUE"
                   /\ scope' = scope
             /\ mgen_scope_register(FALSE, FALSE, ptr) =>
                   IF call'.nomem
                   THEN /\ call'.ret = "MGEN_ERROR_MEMORY"
                        /\ mgen_last_error'.code = "MGEN_ERROR_MEMORY"
                        /\ scope' = scope
                   ELSE /\ call'.ret = "MGEN_OK"
                        /\ scope'.head = <<ptr>> \o scope.head
                        /\ scope'.count = scope.count + 1]_vars

\* mgen_scope_alloc returned NULL because the entry could not be allocated:
\* the block it had obtained is released and not in the scope, which still
\* holds the entry it had before.
C34_Witness ==
    /\ driven = "scope" /\ scope.status = "live"
    /\ call.op = "mgen_scope_alloc" /\ call.ret = "NULL" /\ call.nomem
    /\ mgen_last_error.line = 297
    /\ scope.count = 1 /\ Len(scope.head) = 1
    /\ \E p \in heap.allocated :
          heap.released[p] = 1 /\ p \notin RangeOf(scope.head)

(***************************************************************************)
(* Properties of the order of teardown                                     *)
(***************************************************************************)
Reversed(seq) == [i \in 1..Len(seq) |-> seq[Len(seq) + 1 - i]]

\* C35: for entries registered in the order e1..en, mgen_cleanup_containers
\* (also when called by mgen_container_registry_free) runs the destructors in
\* the order en..e1, and mgen_scope_free releases the pointers in the order
\* en..e1.
C35_LastInFirstOut ==
    [][/\ (driven = "registry" /\ registry.status = "live"
           /\ registry.head # <<>>
           /\ (\/ mgen_cleanup_containers(FALSE)
               \/ mgen_container_registry_free(FALSE))) =>
             /\ Len(heap.registered) = registry.count
             /\ heap'.last_walk = Reversed(heap.registered)
       /\ (driven = "scope" /\ scope.status = "live" /\ scope.head # <<>>
           /\ mgen_scope_free(FALSE)) =>
             /\ Len(heap.registered) = scope.count
             /\ heap'.last_walk = Reversed(heap.registered)]_vars

\* Container 1 and then container 2 were registered and cleaned up: the
\* destructor ran on container 2 first.
C35_Witness ==
    /\ driven = "registry"
    /\ call.op = "mgen_cleanup_containers"
    /\ heap.last_walk = <<2, 1>>
    /\ heap.cleaned[1] = 1 /\ heap.cleaned[2] = 1
    /\ registry.head = <<>>

\* C39: mgen_scope_free hands no pointer to free more than once, also when
\* the pointer has more than one entry in the scope.
C39_ReleasedAtMostOnce ==
    driven = "scope" => \A p \in Ptrs : heap.released[p] <= 1

(***************************************************************************)
(* C36: iterating a set_int with set_int_begin and then set_int_next, the  *)
(* set not being modified in between, terminates.  The values ref pointed  *)
(* at are elements of the set, no value is yielded twice, once ref is NULL *)
(* every element was yielded (exactly size of them), and ref stays NULL on *)
(* a further set_int_next; every iteration reaches ref = NULL.  On a NULL, *)
(* zero-valued or empty set set_int_begin gives ref = NULL at once.        *)
(***************************************************************************)
C36_Yielded ==
    iter.status = "iterating" =>
        /\ \A i, j \in 1..Len(iter.yielded) :
              iter.yielded[i] = iter.yielded[j] => i = j
        /\ iter.ref # <<>> =>
              /\ iter.yielded # <<>>
              /\ iter.ref = <<iter.yielded[Len(iter.yielded)]>>
        /\ iter.set = "set" =>
              /\ \A i \in 1..Len(iter.yielded) :
                    set_int_contains(set, iter.yielded[i])
              /\ iter.ref = <<>> =>
                    /\ Len(iter.yielded) = set_int_size(set)
                    /\ \A v \in IntKeys :
                          set_int_contains(set, v) <=>
                             \E i \in 1..Len(iter.yielded) : iter.yielded[i] = v
        /\ iter.set = "NULL" => iter.ref = <<>> /\ iter.yielded = <<>>

C36_Begin ==
    \A isNull \in BOOLEAN :
        set_int_begin(isNull) /\ (isNull \/ set.buckets = <<>> \/ set.size = 0)
            => iter'.ref = <<>>

C36_StaysNull == set_int_next(FALSE) /\ iter.ref = <<>> => iter'.ref = <<>>

C36_IterationTerminates ==
    /\ []C36_Yielded
    /\ [][C36_Begin /\ C36_StaysNull]_vars
    /\ (iter.status = "iterating") ~> (iter.ref = <<>>)

\* An iteration over three elements, two of them in one chain, came to its end.
C36_Witness ==
    /\ iter.status = "iterating" /\ iter.set = "set"
    /\ iter.ref = <<>>
    /\ Len(iter.yielded) = 3
    /\ set.size = 3
    /\ \E b \in 1..Len(set.buckets) : Len(set.buckets[b]) >= 2
    /\ call.op = "set_int_next"

(***************************************************************************)
(* C37: in the map_int_int of the LLVM minimal runtime, after any sequence *)
(* of map_int_int_set calls size is the number of distinct keys set (the   *)
(* keys contains answers 1 for, and the occupied entries) and 4 * size <=  *)
(* 3 * capacity; set never takes its "map is full" exit; a set(k, v) that  *)
(* returns makes contains(k) 1 and get(k) v, adds 1 to size exactly when k *)
(* was absent, and leaves contains and get of every other key as they      *)
(* were; growing the table keeps every key, its value, and the size.       *)
(***************************************************************************)
MinimalKeys == 1..17

MapRunning == MinimalRunning("minimal map_int_int")

C37_SizeAndLoad ==
    MapRunning =>
        LET m == minimal.obj
            g == minimal_map_int_int_grow(m)
        IN  /\ m.size = Cardinality({k \in MinimalKeys :
                                       minimal_map_int_int_contains(m, k) = 1})
            /\ m.size = Cardinality({i \in 1..Len(m.entries) :
                                       m.entries[i].is_occupied = 1})
            /\ 4 * m.size <= 3 * m.capacity
            /\ g.size = m.size
            /\ \A k \in MinimalKeys :
                  /\ minimal_map_int_int_contains(g, k)
                        = minimal_map_int_int_contains(m, k)
                  /\ MinimalGetResult(g, k) = MinimalGetResult(m, k)

C37_NeverFull == minimal.cause # "map is full"

C37_Set ==
    \A key \in MinimalKeys, value \in {10, 11} :
        /\ MapRunning
        /\ minimal_map_int_int_set(FALSE, key, value)
        /\ ~minimal'.exited
        => LET m == minimal.obj
               n == minimal'.obj
           IN  /\ minimal_map_int_int_contains(n, key) = 1
               /\ MinimalGetResult(n, key) = value
               /\ n.size = m.size + 1 - minimal_map_int_int_contains(m, key)
               /\ \A k \in MinimalKeys \ {key} :
                     /\ minimal_map_int_int_contains(n, k)
                           = minimal_map_int_int_contains(m, k)
                     /\ MinimalGetResult(n, k) = MinimalGetResult(m, k)

C37_MapInvariants ==
    /\ [](C37_SizeAndLoad /\ C37_NeverFull)
    /\ [][C37_Set]_vars

\* The thirteenth key was set: the table grew to 32 entries and still has
\* the colliding keys 1 and 17, key 1 with the value of its latest set.
C37_Witness ==
    /\ MapRunning
    /\ minimal.op = "map_int_int_set"
    /\ minimal.obj.capacity = 2 * MAP_DEFAULT_CAPACITY
    /\ minimal.obj.size = 13
    /\ minimal_map_int_int_contains(minimal.obj, 17) = 1
    /\ MinimalGetResult(minimal.obj, 1) = 11

(***************************************************************************)
(* C38: with memory tracking enabled, mgen_check_memory_leaks() returns    *)
(* non-zero exactly while a block that mgen_malloc or mgen_calloc returned *)
(* since then is not released by mgen_free (so it returns 0 once all of    *)
(* them are released), and allocation_count - free_count is the number of  *)
(* those blocks.                                                           *)
(***************************************************************************)
C38_LeakReport ==
    stats.enabled =>
        (mgen_check_memory_leaks # 0 <=> TrackedBlocks(stats) # {})

C38_CountDifference ==
    stats.enabled =>
        stats.allocation_count - stats.free_count
            = Cardinality(TrackedBlocks(stats))

C38_LeakDetection == C38_LeakReport /\ C38_CountDifference

(***************************************************************************)
(* C40: for a range made by mgen_range_full(start, stop, step) the loop    *)
(* "while mgen_range_has_next(r) do mgen_range_next(r)" terminates.  For   *)
(* step # 0 the values it yields are the first values of Python's          *)
(* range(start, stop, step), in order, and all of them once has_next is    *)
(* false, which it then stays; for step = 0 a ValueError exception was     *)
(* raised at creation and the loop yields no value.                        *)
(***************************************************************************)
\* list(range(start, stop, step)) of Python, step # 0.
RECURSIVE PyRange(_, _, _)
PyRange(start, stop, step) ==
    IF (step > 0 /\ start < stop) \/ (step < 0 /\ start > stop)
    THEN <<start>> \o PyRange(start + step, stop, step)
    ELSE <<>>

C40_Yields ==
    range.status = "made" =>
        IF range.step = 0
        THEN /\ range.mgen_current_exception.type = "MGEN_ERROR_VALUE"
             /\ range.yielded = <<>>
        ELSE LET py == PyRange(range.start, range.stop, range.step)
             IN  /\ Len(range.yielded) <= Len(py)
                 /\ range.yielded = SubSeq(py, 1, Len(range.yielded))
                 /\ mgen_range_has_next(range) = 0 => range.yielded = py

C40_StaysFalse ==
    /\ range.status = "made"
    /\ mgen_range_has_next(range) = 0
    /\ mgen_range_next(FALSE)
    => mgen_range_has_next(range') = 0 /\ range'.yielded = range.yielded

C40_RangeLoop ==
    /\ []C40_Yields
    /\ [][C40_StaysFalse]_vars
    /\ (range.status = "made") ~> (mgen_range_has_next(range) = 0)

====
